---- MODULE Spec2Model ----
(***************************************************************************)
(* Span-aware text transformation engine of belb (belb/preprocessing):     *)
(* data model (data.py), base transformation (transform.py), intra-word    *)
(* mention cleanup (clean.py), mention markers (mark.py), sentence         *)
(* segmentation (segment.py) and the invariant checks (qaqc.py).           *)
(*                                                                         *)
(* Texts are sequences of one-character strings.  Offsets are 0-based and  *)
(* half-open as in the Python source; Python's s[i] is text[i + 1] here.   *)
(***************************************************************************)
EXTENDS Integers, Sequences, FiniteSets, TLC

VARIABLES
    example,      \* the Example object the caller holds (mutated in place)
    given,        \* the example as it was when the method was called
    allow_drop,   \* BaseTransformation.allow_drop
    pc,           \* "ready" | "done"
    op,           \* the method that was called
    segm,         \* what the sentence boundary detector answered per passage
    result,       \* outcome of the call: returned example or raised exception
    g_in, g_out,  \* BaseTransformation.group_annotations_by_span: input, output
    m_sents, m_anns, m_out, m_rounds,  \* sentence merging: input, output, rounds
    d_in, d_prev, d_calls,  \* drop_duplicate_annotations: the example as built,
                            \* before the latest call, and the number of calls
                            \* (the example itself is `example`)
    p_in, p_out, p_op,      \* Example.prepare and its steps: the texts and
                            \* annotations given, the outcome, the method
    h_in, h_out, h_op,      \* Annotation.to_hexdigest: the annotations given
                            \* in two orders, the two answers, `original`
    q_in, q_out,            \* qaqc.test_offsets: the example, the outcome
    c_in, c_out, c_op,      \* the methods working on one cluster of nested or
                            \* overlapping annotations: the passage and the
                            \* cluster, the answer, the method
    m_merges                \* merge_sentences_with_crossing_annotations: the
                            \* local `merges` of the current call

vars == <<example, given, allow_drop, pc, op, segm, result,
          g_in, g_out, m_sents, m_anns, m_out, m_rounds, d_in, d_prev, d_calls,
          p_in, p_out, p_op, h_in, h_out, h_op,
          q_in, q_out,
          c_in, c_out, c_op,
          m_merges>>

-----------------------------------------------------------------------------
(* Bounds of the model *)

\* total number of characters of an example's passages
MaxLen == 3
\* total number of annotations of an example
MaxAnn == 3
\* number of passages of an example
MaxPassages == 2

-----------------------------------------------------------------------------
(* Characters and Python string primitives *)

\* letters stand for alphanumeric text, "@" for any other character; "@" is
\* also SplitIntoSentences.sentinel_token
Alphabet == {"a", "@"}

SENTINEL == "@"

\* str.isalnum on the characters that can occur (text and marker characters)
IsAlnum(c) == c \in {"a", "M", "S", "F", "E"}

Min(a, b) == IF a < b THEN a ELSE b

Max(a, b) == IF a > b THEN a ELSE b

MinOf(S) == CHOOSE x \in S : \A y \in S : x <= y

MaxOf(S) == CHOOSE x \in S : \A y \in S : x >= y

\* a Python slice bound: negative counts from the end, then clamped
Norm(i, n) == IF i < 0 THEN Max(i + n, 0) ELSE Min(i, n)

\* text[s:e]
PySlice(t, s, e) ==
    LET n  == Len(t)
        s1 == Norm(s, n)
        e1 == Norm(e, n)
    IN  IF e1 <= s1 THEN << >> ELSE SubSeq(t, s1 + 1, e1)

\* text[s:]
PyFrom(t, s) == PySlice(t, s, Len(t))

\* the index of the last occurrence instead of the first. C23 does not hold
\* of it.
Find_last(needle, hay) ==
    LET hits == {i \in 0..(Len(hay) - Len(needle)) :
                    SubSeq(hay, i + 1, i + Len(needle)) = needle}
    IN  IF hits = {} THEN -1 ELSE MaxOf(hits)

\* re.search(re.escape(needle), hay).start(), or -1 when there is no match
Find(needle, hay) ==
    LET hits == {i \in 0..(Len(hay) - Len(needle)) :
                    SubSeq(hay, i + 1, i + Len(needle)) = needle}
    IN  IF hits = {} THEN -1 ELSE MinOf(hits)

RECURSIVE Repeat(_, _)
Repeat(c, n) == IF n <= 0 THEN << >> ELSE <<c>> \o Repeat(c, n - 1)

RECURSIVE SumLen(_)
SumLen(ts) == IF ts = << >> THEN 0 ELSE Len(Head(ts)) + SumLen(Tail(ts))

RECURSIVE Flatten(_)
Flatten(ss) == IF ss = << >> THEN << >> ELSE Head(ss) \o Flatten(Tail(ss))

\* Body of v: a value the code computes once and then uses by name
With(v, Body(_)) == Body(v)

\* the elements of s that satisfy Test, in order
SelectIdx(s, Test(_)) ==
    LET F[i \in 0..Len(s)] ==
            IF i = 0 THEN << >>
            ELSE LET last == F[i - 1]
                 IN  IF Test(i) THEN Append(last, i) ELSE last
    IN  F[Len(s)]

\* sorted(range(1, n + 1), key=Key): Python's sort is stable
StableSortIdx(n, Less(_, _)) ==
    LET Before(i, j) == Less(i, j) \/ (~Less(j, i) /\ i < j)
        Rank(i) == Cardinality({j \in 1..n : Before(j, i)}) + 1
    IN  [k \in 1..n |-> CHOOSE i \in 1..n : Rank(i) = k]

-----------------------------------------------------------------------------
(* data.py: Annotation, Passage, Example *)

NA == <<"-">>

TargetType == "gene"

ForeignType == "species"

\* None, the default of identifiers and of location
None == <<"None">>

\* Annotation.__post_init__: original is the snapshot of the identifying
\* fields as given (location is never given); a foreign annotation's
\* identifiers are NA
NewAnnotation(id, start, end, text, entity_type, identifiers, foreign) ==
    [id |-> id, start |-> start, end |-> end, text |-> text,
     entity_type |-> entity_type,
     identifiers |-> IF foreign THEN NA ELSE identifiers,
     foreign |-> foreign,
     original |-> [start |-> start, end |-> end, text |-> text,
                   entity_type |-> entity_type, identifiers |-> identifiers,
                   location |-> None]]

\* an annotation of the target entity type with one identifier, or a foreign
\* annotation as corpus.py builds it (no identifiers given)
Annotation(id, start, end, text, foreign) ==
    NewAnnotation(id, start, end, text,
                  IF foreign THEN ForeignType ELSE TargetType,
                  IF foreign THEN None ELSE <<"1">>, foreign)

\* Annotation.nested
nested(a, o) == a.start >= o.start /\ a.end <= o.end

\* Annotation.overlaps
overlaps(a, o) ==
    \/ (a.start <= o.start /\ o.start < a.end)
    \/ (a.start < o.end /\ o.end <= a.end)

\* Passage.is_empty
PassageIsEmpty(p) == \A i \in 1..Len(p.annotations) : p.annotations[i].foreign

\* Example.__post_init__
NewExample(eid, passages) ==
    [id |-> eid, passages |-> passages, prepared |-> FALSE,
     passages_text_modified |-> FALSE,
     annotations_offsets_relative_to_passage |-> FALSE]

\* Example.is_empty
is_empty(ex) ==
    \/ Len(ex.passages) = 0
    \/ \A k \in 1..Len(ex.passages) : PassageIsEmpty(ex.passages[k])

\* the offsets Example.reset_offsets gives the passages: running sum of len + 1
RunningOffset(passages, k) == SumLen([j \in 1..(k - 1) |-> passages[j].text]) + (k - 1)

\* reset_offsets without the last two assignments: the flags stay as they
\* were. C9 does not hold of it.
reset_offsets_keeping_flags(ex) ==
    LET shift == ex.annotations_offsets_relative_to_passage
    IN  [ex EXCEPT !.passages =
            [k \in 1..Len(ex.passages) |->
                [ex.passages[k] EXCEPT
                    !.offset = RunningOffset(ex.passages, k),
                    !.annotations =
                        [i \in 1..Len(ex.passages[k].annotations) |->
                            IF shift
                            THEN [ex.passages[k].annotations[i] EXCEPT
                                    !.start = @ + RunningOffset(ex.passages, k),
                                    !.end = @ + RunningOffset(ex.passages, k)]
                            ELSE ex.passages[k].annotations[i]]]]]

\* Example.reset_offsets
reset_offsets(ex) ==
    LET shift == ex.annotations_offsets_relative_to_passage
        P(k) ==
            LET p   == ex.passages[k]
                off == RunningOffset(ex.passages, k)
            IN  [p EXCEPT
                    !.offset = off,
                    !.annotations =
                        [i \in 1..Len(p.annotations) |->
                            IF shift
                            THEN [p.annotations[i] EXCEPT
                                    !.start = @ + off, !.end = @ + off]
                            ELSE p.annotations[i]]]
    IN  [ex EXCEPT
            !.passages = [k \in 1..Len(ex.passages) |-> P(k)],
            !.passages_text_modified = FALSE,
            !.annotations_offsets_relative_to_passage = FALSE]

-----------------------------------------------------------------------------
(* clean.py: the intra-word-mention predicates; qaqc.py: the checks *)

\* text[i] for an index inside the text
CharAt(t, i) == t[i + 1]

is_iwm_start(a, p) ==
    LET start == a.start - p.offset
    IN  IF start = 0 THEN FALSE
        ELSE start - 1 \in 0..(Len(p.text) - 1) /\ IsAlnum(CharAt(p.text, start - 1))

\* looks at the last character of the annotation instead of the character
\* after it. C16 does not hold of it.
is_iwm_end_inside(a, p) ==
    LET end == a.end - p.offset
    IN  IF end = Len(p.text) THEN FALSE
        ELSE end - 1 \in 0..(Len(p.text) - 1) /\ IsAlnum(CharAt(p.text, end - 1))

is_iwm_end(a, p) ==
    LET end == a.end - p.offset
    IN  IF end = Len(p.text) THEN FALSE
        ELSE end \in 0..(Len(p.text) - 1) /\ IsAlnum(CharAt(p.text, end))

is_iwm(a, p) == is_iwm_start(a, p) \/ is_iwm_end(a, p)

has_intra_word_mentions(p) ==
    \E i \in 1..Len(p.annotations) : is_iwm(p.annotations[i], p)

\* the annotations test_offsets reports: text differs from the passage text at
\* [start - offset, end - offset)
OffsetMismatches(ex) ==
    UNION {{<<k, i>> : i \in {j \in 1..Len(ex.passages[k].annotations) :
                LET p == ex.passages[k]
                    a == p.annotations[j]
                IN  PySlice(p.text, a.start - p.offset, a.end - p.offset) # a.text}}
           : k \in 1..Len(ex.passages)}

\* test_offsets raises OffsetError
test_offsets(ex) == OffsetMismatches(ex) # {}

\* test_intraword_mentions raises IntraWordMentionError
test_intraword_mentions(ex) ==
    \E k \in 1..Len(ex.passages) : has_intra_word_mentions(ex.passages[k])

-----------------------------------------------------------------------------
(* transform.py: BaseTransformation *)

NoExample == [id |-> "none"]

\* the outcome of calling a method: kind is "returned" or the exception raised;
\* ret the returned example; obj the state the call left the argument object in;
\* same tells that ret is that very object; hit the error met inside; raw the
\* example as the innermost method body left it; log what it recorded per passage
Outcome(kind, ret, obj, same, hit, raw, log) ==
    [kind |-> kind, ret |-> ret, obj |-> obj, same |-> same, hit |-> hit,
     raw |-> raw, log |-> log]

Raised(exc, obj, hit, log) == Outcome(exc, NoExample, obj, FALSE, hit, NoExample, log)

\* what transformmethod does to the example the wrapped method returned
transformmethod_exit(ex) ==
    IF ex.passages_text_modified \/ ex.annotations_offsets_relative_to_passage
    THEN reset_offsets(ex)
    ELSE ex

\* a wrapper that shifts the annotations on every exit, whatever the flags
\* say. C1 does not hold of it: safe_apply calls apply, both are wrapped.
transformmethod_shifting_always(arg, r) ==
    IF ~arg.prepared THEN Raised("AssertionError", arg, "none", << >>)
    ELSE IF r.kind # "returned" THEN r
    ELSE LET out == reset_offsets(
                        [r.ret EXCEPT !.annotations_offsets_relative_to_passage = TRUE])
         IN  [r EXCEPT !.ret = out, !.obj = IF r.same THEN out ELSE r.obj]

\* transformmethod around a method whose outcome on `arg` is r
transformmethod(arg, r) ==
    IF ~arg.prepared THEN Raised("AssertionError", arg, "none", << >>)
    ELSE IF r.kind # "returned" THEN r
    ELSE LET out == transformmethod_exit(r.ret)
         IN  [r EXCEPT !.ret = out, !.obj = IF r.same THEN out ELSE r.obj]

\* a handle_error that hands the example back instead of an empty one. C2
\* does not hold of it.
handle_error_keeping_example(drop, eid, obj, hit, raw, log) ==
    IF drop
    THEN Outcome("returned", obj, obj, TRUE, hit, raw, log)
    ELSE Raised("RuntimeError", obj, hit, log)

\* BaseTransformation.handle_error, called for the argument object obj
handle_error(drop, eid, obj, hit, raw, log) ==
    IF drop
    THEN Outcome("returned", NewExample(eid, << >>), obj, FALSE, hit, raw, log)
    ELSE Raised("RuntimeError", obj, hit, log)

\* a grouping that compares an annotation with the first member of the
\* current bucket only. C4 does not hold of it.
group_annotations_by_first_member(anns) ==
    LET n == Len(anns)
        Less(i, j) ==
            \/ anns[i].start < anns[j].start
            \/ /\ anns[i].start = anns[j].start
               /\ Len(anns[i].text) > Len(anns[j].text)
        Related(i, bucket) ==
            nested(anns[i], anns[bucket[1]]) \/ overlaps(anns[i], anns[bucket[1]])
        Buckets(order) ==
            LET F[k \in 1..n] ==
                    IF k = 1 THEN [done |-> << >>, cur |-> <<order[1]>>]
                    ELSE With(F[k - 1], LAMBDA last :
                            IF Related(order[k], last.cur)
                            THEN [last EXCEPT !.cur = Append(@, order[k])]
                            ELSE [done |-> Append(last.done, last.cur),
                                  cur |-> <<order[k]>>])
            IN  With(F[n], LAMBDA last : Append(last.done, last.cur))
    IN  Buckets(StableSortIdx(n, Less))

\* BaseTransformation.group_annotations_by_span: the buckets, each a list of
\* positions in anns
group_annotations_by_span(anns) ==
    LET n == Len(anns)
        Less(i, j) ==
            \/ anns[i].start < anns[j].start
            \/ /\ anns[i].start = anns[j].start
               /\ Len(anns[i].text) > Len(anns[j].text)
        Related(i, bucket) ==
            \E m \in 1..Len(bucket) :
                nested(anns[i], anns[bucket[m]]) \/ overlaps(anns[i], anns[bucket[m]])
        Buckets(order) ==
            LET F[k \in 1..n] ==
                    IF k = 1 THEN [done |-> << >>, cur |-> <<order[1]>>]
                    ELSE With(F[k - 1], LAMBDA last :
                            IF Related(order[k], last.cur)
                            THEN [last EXCEPT !.cur = Append(@, order[k])]
                            ELSE [done |-> Append(last.done, last.cur),
                                  cur |-> <<order[k]>>])
            IN  With(F[n], LAMBDA last : Append(last.done, last.cur))
    IN  Buckets(StableSortIdx(n, Less))

is_independent_annotation(g) == Len(g) = 0 \/ Len(g) = 1

\* first/last passage-relative position of the cluster g of anns
SpanStart(p, anns, g) == MinOf({anns[g[m]].start - p.offset : m \in 1..Len(g)})

SpanEnd(p, anns, g) == MaxOf({anns[g[m]].end - p.offset : m \in 1..Len(g)})

\* a map that also gives an annotation the character at its end. C24 does
\* not hold of it.
get_text_span_multi_annotation_closed(p, anns, g) ==
    LET Chars(span_start, txt) ==
            [i \in 1..Len(txt) |->
                [c |-> txt[i],
                 o |-> {anns[g[m]].id : m \in {x \in 1..Len(g) :
                          /\ anns[g[x]].start - p.offset - span_start <= i - 1
                          /\ i - 1 <= anns[g[x]].start - p.offset - span_start
                                        + Len(anns[g[x]].text)}}]]
    IN  With(SpanStart(p, anns, g), LAMBDA span_start :
            Chars(span_start, PySlice(p.text, span_start, SpanEnd(p, anns, g))))

\* BaseTransformation.get_text_span_multi_annotation: the characters of the
\* cluster's span, each with the ids of the annotations that cover it (the
\* source keeps the ids in a list and only tests membership)
get_text_span_multi_annotation(p, anns, g) ==
    LET Chars(span_start, txt) ==
            [i \in 1..Len(txt) |->
                [c |-> txt[i],
                 o |-> {anns[g[m]].id : m \in {x \in 1..Len(g) :
                          /\ anns[g[x]].start - p.offset - span_start <= i - 1
                          /\ i - 1 < anns[g[x]].start - p.offset - span_start
                                        + Len(anns[g[x]].text)}}]]
    IN  With(SpanStart(p, anns, g), LAMBDA span_start :
            Chars(span_start, PySlice(p.text, span_start, SpanEnd(p, anns, g))))

\* "".join(c for c, anns in chars if id in anns)
TextOf(chars, id) ==
    LET keep == SelectIdx(chars, LAMBDA i : id \in chars[i].o)
    IN  [k \in 1..Len(keep) |-> chars[keep[k]].c]

\* "".join(c for c, _ in chars)
SpanText(chars) == [i \in 1..Len(chars) |-> chars[i].c]

\* BaseTransformation.remap_offsets_grouped_annotations on the cluster g of
\* anns: the annotations as the loop left them, and whether it raised
remap_offsets_grouped_annotations(anns, g, span_text, offset) ==
    LET F[m \in 0..Len(g)] ==
            IF m = 0 THEN [anns |-> anns, err |-> FALSE]
            ELSE With(F[m - 1], LAMBDA last :
                    IF last.err THEN last
                    ELSE With(Find(last.anns[g[m]].text, span_text), LAMBDA at :
                            IF at = -1 THEN [last EXCEPT !.err = TRUE]
                            ELSE [last EXCEPT
                                    !.anns[g[m]].start = at + offset,
                                    !.anns[g[m]].end =
                                        at + offset + Len(last.anns[g[m]].text)]))
    IN  F[Len(g)]

-----------------------------------------------------------------------------
(* clean.py: CleanIntraWordMentions *)

\* inserts[idx] = value, for a Python dict kept as a function
Put(f, k, v) == [x \in (DOMAIN f) \cup {k} |-> IF x = k THEN v ELSE f[x]]

\* CleanIntraWordMentions.get_grouped_annotations_inserts: inserts maps the
\* index after which a space goes to the ids that own the space
CleanIntraWordMentions_get_grouped_annotations_inserts(anns, g, chars, span_offset, passage_offset) ==
    LET AtStart(last, a, start) ==
            IF start # 0 /\ start \in 1..Len(chars) /\ IsAlnum(chars[start].c)
            THEN [inserts |-> Put(last.inserts, start - 1, chars[start].o \ {a.id}),
                  white_spaces_added |-> last.white_spaces_added + 1]
            ELSE last
        AtEnd(s1, a, end) ==
            IF end # Len(chars) /\ end \in 1..Len(chars) /\ IsAlnum(chars[end].c)
            THEN [inserts |-> Put(s1.inserts, end - 1, chars[end].o \ {a.id}),
                  white_spaces_added |-> s1.white_spaces_added + 1]
            ELSE s1
        Step(last, a, start) ==
            AtEnd(AtStart(last, a, start), a, start + Len(a.text))
        F[m \in 0..Len(g)] ==
            IF m = 0 THEN [inserts |-> << >>, white_spaces_added |-> 0]
            ELSE Step(F[m - 1], anns[g[m]],
                      anns[g[m]].start - passage_offset - span_offset)
    IN  F[Len(g)]

\* CleanIntraWordMentions.apply_inserts
CleanIntraWordMentions_apply_inserts(chars, inserts) ==
    Flatten([i \in 1..Len(chars) |->
                IF (i - 1) \in DOMAIN inserts
                THEN <<chars[i], [c |-> " ", o |-> inserts[i - 1]]>>
                ELSE <<chars[i]>>])

\* CleanIntraWordMentions.clean_grouped_annotations_intraword_mention on the
\* cluster g of anns: annotations with rebuilt text, span text, counter
clean_grouped_annotations_intraword_mention(anns, g, p) ==
    With(get_text_span_multi_annotation(p, anns, g), LAMBDA chars :
    With(CleanIntraWordMentions_get_grouped_annotations_inserts(
            anns, g, chars, SpanStart(p, anns, g), p.offset), LAMBDA ins :
    With(CleanIntraWordMentions_apply_inserts(chars, ins.inserts),
         LAMBDA chars_with_inserts :
        [anns |-> [i \in 1..Len(anns) |->
                     IF i \in {g[m] : m \in 1..Len(g)}
                     THEN [anns[i] EXCEPT !.text = TextOf(chars_with_inserts, anns[i].id)]
                     ELSE anns[i]],
         span_text |-> SpanText(chars_with_inserts),
         white_spaces_added |-> ins.white_spaces_added,
         applied |-> Len(chars_with_inserts) - Len(chars)])))

\* one round of the loop of clean_passage_intra_word_mentions, for group g
CleanGroupStep(p, acc, g) ==
    LET One(b)   == IF b THEN 1 ELSE 0
        Space(b) == IF b THEN <<" ">> ELSE << >>
    IN
    With(is_independent_annotation(g), LAMBDA indep :
    With(IF indep THEN acc.anns[g[1]].start - p.offset
         ELSE SpanStart(p, acc.anns, g), LAMBDA chunk_start :
    With(IF indep THEN acc.anns[g[1]].end - p.offset
         ELSE SpanEnd(p, acc.anns, g), LAMBDA chunk_end :
    With(is_iwm_start([start |-> chunk_start + p.offset], p),
         LAMBDA prepend_white_space :
    With(is_iwm_end([end |-> chunk_end + p.offset], p),
         LAMBDA append_white_space :
    With(acc.text \o PySlice(p.text, acc.chunk_end, chunk_start)
            \o Space(prepend_white_space), LAMBDA text1 :
        IF indep
        THEN [acc EXCEPT
                !.anns[g[1]].start = Len(text1),
                !.anns[g[1]].end = Len(text1) + Len(acc.anns[g[1]].text),
                !.text = text1 \o acc.anns[g[1]].text \o Space(append_white_space),
                !.chunk_end = chunk_end,
                !.white_spaces_added =
                    @ + One(prepend_white_space) + One(append_white_space),
                !.applied = @ + One(prepend_white_space) + One(append_white_space)]
        ELSE
        With(clean_grouped_annotations_intraword_mention(acc.anns, g, p),
             LAMBDA cl :
        With(remap_offsets_grouped_annotations(cl.anns, g, cl.span_text, Len(text1)),
             LAMBDA rm :
            IF rm.err
            THEN [acc EXCEPT !.anns = rm.anns, !.err = TRUE,
                             !.white_spaces_added = @ + One(prepend_white_space),
                             !.applied = @ + One(prepend_white_space),
                             !.clusters = Append(@, [counted |-> cl.white_spaces_added,
                                                      inserted |-> cl.applied])]
            ELSE [acc EXCEPT
                    !.anns = rm.anns,
                    !.text = text1 \o cl.span_text \o Space(append_white_space),
                    !.chunk_end = chunk_end,
                    !.white_spaces_added =
                        @ + One(prepend_white_space) + cl.white_spaces_added
                          + One(append_white_space),
                    !.applied = @ + One(prepend_white_space) + cl.applied
                                  + One(append_white_space),
                    !.clusters = Append(@, [counted |-> cl.white_spaces_added,
                                             inserted |-> cl.applied])]))))))))

\* CleanIntraWordMentions.clean_passage_intra_word_mentions: the passage as the
\* call left it, whether it raised RuntimeError, and the numbers it worked with
clean_passage_intra_word_mentions(p) ==
    LET Loop(groups) ==
            LET F[k \in 0..Len(groups)] ==
                    IF k = 0
                    THEN [anns |-> p.annotations, text |-> << >>, chunk_end |-> 0,
                          white_spaces_added |-> 0, applied |-> 0,
                          clusters |-> << >>, err |-> FALSE]
                    ELSE With(F[k - 1], LAMBDA last :
                            IF last.err THEN last
                            ELSE CleanGroupStep(p, last, groups[k]))
            IN  F[Len(groups)]
        Result(end, text, bad) ==
            [p |-> IF end.err \/ bad
                   THEN [p EXCEPT !.annotations = end.anns]
                   ELSE [p EXCEPT !.annotations = end.anns, !.text = text],
             err |-> end.err \/ bad,
             stats |-> [old |-> Len(p.text), new |-> Len(text),
                        white_spaces_added |-> end.white_spaces_added,
                        applied |-> end.applied,
                        clusters |-> end.clusters,
                        remap_failed |-> end.err, length_failed |-> bad]]
    IN  With(Loop(group_annotations_by_span(p.annotations)), LAMBDA end :
        With(end.text \o PyFrom(p.text, end.chunk_end), LAMBDA text :
            Result(end, text,
                   ~end.err /\ Len(text) # Len(p.text) + end.white_spaces_added)))

\* the branch of CleanIntraWordMentions.apply for a passage without intra-word
\* mentions: offsets made relative to the passage
CleanRelativeOffsets(p) ==
    [p EXCEPT !.annotations =
        [i \in 1..Len(p.annotations) |->
            [p.annotations[i] EXCEPT
                !.start = @ - p.offset,
                !.end = p.annotations[i].start - p.offset + Len(p.annotations[i].text)]]]

\* the body of CleanIntraWordMentions.apply
CleanIntraWordMentions_apply_body(ex) ==
    LET F[k \in 0..Len(ex.passages)] ==
            IF k = 0 THEN [passages |-> ex.passages, err |-> FALSE, log |-> << >>]
            ELSE With(F[k - 1], LAMBDA last :
                    IF last.err THEN last
                    ELSE IF has_intra_word_mentions(ex.passages[k])
                    THEN With(clean_passage_intra_word_mentions(ex.passages[k]),
                              LAMBDA r :
                            [passages |-> [last.passages EXCEPT ![k] = r.p],
                             err |-> r.err,
                             log |-> Append(last.log, [passage |-> k] @@ r.stats)])
                    ELSE [last EXCEPT
                            !.passages[k] = CleanRelativeOffsets(ex.passages[k])])
        Result(end, obj, out) ==
            IF end.err THEN Raised("RuntimeError", obj, "apply", end.log)
            ELSE Outcome("returned", out, out, TRUE, "none", out, end.log)
    IN  With(F[Len(ex.passages)], LAMBDA end :
            Result(end,
                   [ex EXCEPT !.passages = end.passages],
                   [ex EXCEPT !.passages = end.passages,
                              !.passages_text_modified = TRUE,
                              !.annotations_offsets_relative_to_passage = TRUE]))

\* CleanIntraWordMentions.apply (decorated with transformmethod)
CleanIntraWordMentions_apply(ex) ==
    transformmethod(ex, CleanIntraWordMentions_apply_body(ex))

\* the post-condition checks shared by the safe_apply methods: test_offsets
\* on a non-empty example, handle_error when it raises
CheckOffsets(drop, r) ==
    IF r.kind = "returned" /\ ~is_empty(r.ret) /\ test_offsets(r.ret)
    THEN handle_error(drop, r.ret.id, r.obj, "offsets", r.raw, r.log)
    ELSE r

\* test_intraword_mentions on a non-empty example, handle_error when it raises
CheckIntraWordMentions(drop, r) ==
    IF r.kind = "returned" /\ ~is_empty(r.ret) /\ test_intraword_mentions(r.ret)
    THEN handle_error(drop, r.ret.id, r.obj, "iwm", r.raw, r.log)
    ELSE r

\* `except RuntimeError` around the call of apply
CatchRuntimeError(drop, ex, r) ==
    IF r.kind = "RuntimeError"
    THEN handle_error(drop, ex.id, r.obj, "apply", r.raw, r.log)
    ELSE r

\* the body of CleanIntraWordMentions.safe_apply
CleanIntraWordMentions_safe_apply_body(drop, ex) ==
    IF ~test_intraword_mentions(ex)
    THEN Outcome("returned", ex, ex, TRUE, "none", ex, << >>)
    ELSE CheckIntraWordMentions(drop,
            CheckOffsets(drop,
                CatchRuntimeError(drop, ex, CleanIntraWordMentions_apply(ex))))

\* CleanIntraWordMentions.safe_apply (decorated with transformmethod)
CleanIntraWordMentions_safe_apply(drop, ex) ==
    transformmethod(ex, CleanIntraWordMentions_safe_apply_body(drop, ex))

-----------------------------------------------------------------------------
(* mark.py: AddMentionMarkers, constructed with entity_type = TargetType *)

\* MARKERS["mention"] and MARKERS["foreign"], as get_markers pads them
MS == <<"[", "M", "S", "]", " ">>

ME == <<" ", "[", "M", "E", "]">>

FS == <<"[", "F", "S", "]", " ">>

FE == <<" ", "[", "F", "E", "]">>

\* AddMentionMarkers.get_markers
get_markers(entity_type) ==
    IF entity_type = TargetType
    THEN [start |-> MS, end |-> ME]
    ELSE [start |-> FS, end |-> FE]

\* inserts[idx] = [value] on a plain dict: a marker requested at an index
\* replaces the markers requested there before. C22 does not hold of it.
PutAppend_overwriting(f, k, v) ==
    [x \in (DOMAIN f) \cup {k} |-> IF x = k THEN <<v>> ELSE f[x]]

\* inserts[idx].append(value) on a defaultdict(list)
PutAppend(f, k, v) ==
    [x \in (DOMAIN f) \cup {k} |->
        IF x = k THEN (IF k \in DOMAIN f THEN Append(f[k], v) ELSE <<v>>) ELSE f[x]]

\* AddMentionMarkers.get_grouped_annotations_inserts: inserts maps the index
\* after which markers go (-1: before the span) to the list of (marker, owner
\* ids), in the order the markers were requested
AddMentionMarkers_get_grouped_annotations_inserts(anns, g, chars, span_offset, passage_offset) ==
    LET Open(prev, a, mk, idx) ==
            IF idx = -1
            THEN IF -1 \notin DOMAIN prev.inserts
                 THEN [prev EXCEPT !.inserts =
                        PutAppend(@, -1, [m |-> mk.start, o |-> {}])]
                 ELSE [inserts |-> PutAppend(prev.inserts, -1,
                                    [m |-> mk.start,
                                     o |-> prev.at_beginning \ {a.id}]),
                       at_beginning |-> prev.at_beginning \cup {a.id}]
            ELSE [prev EXCEPT !.inserts =
                    PutAppend(@, idx, [m |-> mk.start,
                                       o |-> chars[idx + 1].o \ {a.id}])]
        Close(s1, a, mk, end) ==
            [s1 EXCEPT !.inserts =
                PutAppend(@, end - 1, [m |-> mk.end, o |-> chars[end].o \ {a.id}])]
        Step(prev, a, mk, start) ==
            Close(Open(prev, a, mk, start - 1), a, mk, start + Len(a.text))
        F[m \in 0..Len(g)] ==
            IF m = 0 THEN [inserts |-> << >>, at_beginning |-> {}]
            ELSE Step(F[m - 1], anns[g[m]], get_markers(anns[g[m]].entity_type),
                      anns[g[m]].start - passage_offset - span_offset)
    IN  F[Len(g)].inserts

\* the characters of the markers requested at one index, each with its owners
MarkerChars(items) ==
    Flatten([k \in 1..Len(items) |->
                [j \in 1..Len(items[k].m) |-> [c |-> items[k].m[j], o |-> items[k].o]]])

\* AddMentionMarkers.apply_inserts
AddMentionMarkers_apply_inserts(chars, inserts) ==
    (IF -1 \in DOMAIN inserts THEN MarkerChars(inserts[-1]) ELSE << >>)
    \o Flatten([i \in 1..Len(chars) |->
                  IF (i - 1) \in DOMAIN inserts
                  THEN <<chars[i]>> \o MarkerChars(inserts[i - 1])
                  ELSE <<chars[i]>>])

\* AddMentionMarkers.add_markers_to_grouped_annotations on the cluster g
add_markers_to_grouped_annotations(anns, g, p) ==
    LET Added(inserts) ==
            LET Sum[S \in SUBSET DOMAIN inserts] ==
                    IF S = {} THEN 0
                    ELSE With(CHOOSE y \in S : TRUE, LAMBDA x :
                            SumLen([k \in 1..Len(inserts[x]) |-> inserts[x][k].m])
                                + Sum[S \ {x}])
            IN  Sum[DOMAIN inserts]
    IN
    With(get_text_span_multi_annotation(p, anns, g), LAMBDA chars :
    With(AddMentionMarkers_get_grouped_annotations_inserts(
            anns, g, chars, SpanStart(p, anns, g), p.offset), LAMBDA inserts :
    With(AddMentionMarkers_apply_inserts(chars, inserts), LAMBDA chars_with_inserts :
        [anns |-> [i \in 1..Len(anns) |->
                     IF i \in {g[m] : m \in 1..Len(g)}
                     THEN [anns[i] EXCEPT !.text = TextOf(chars_with_inserts, anns[i].id)]
                     ELSE anns[i]],
         span_text |-> SpanText(chars_with_inserts),
         chars_added |-> Added(inserts),
         chars_with_inserts |-> chars_with_inserts])))

\* one round of the loop of add_markers_to_passage, for group g
MarkGroupStep(p, acc, g) ==
    With(is_independent_annotation(g), LAMBDA indep :
    With(IF indep THEN acc.anns[g[1]].start - p.offset
         ELSE SpanStart(p, acc.anns, g), LAMBDA chunk_start :
    With(IF indep THEN acc.anns[g[1]].end - p.offset
         ELSE SpanEnd(p, acc.anns, g), LAMBDA chunk_end :
    With(acc.text \o PySlice(p.text, acc.chunk_end, chunk_start), LAMBDA text1 :
        IF indep
        THEN With(acc.anns[g[1]], LAMBDA a :
             With(get_markers(a.entity_type), LAMBDA mk :
                [acc EXCEPT
                    !.anns[g[1]].start = Len(text1) + Len(mk.start),
                    !.anns[g[1]].end = Len(text1) + Len(mk.start) + Len(a.text),
                    !.text = text1 \o mk.start \o a.text \o mk.end,
                    !.chunk_end = chunk_end,
                    !.chars_added = @ + Len(mk.start) + Len(mk.end)]))
        ELSE
        With(add_markers_to_grouped_annotations(acc.anns, g, p), LAMBDA cl :
        With(remap_offsets_grouped_annotations(cl.anns, g, cl.span_text, Len(text1)),
             LAMBDA rm :
            IF rm.err
            THEN [acc EXCEPT !.anns = rm.anns, !.err = TRUE]
            ELSE [acc EXCEPT
                    !.anns = rm.anns,
                    !.text = text1 \o cl.span_text,
                    !.chunk_end = chunk_end,
                    !.chars_added = @ + cl.chars_added]))))))

\* AddMentionMarkers.add_markers_to_passage: the passage as the call left it
\* and whether it raised RuntimeError
add_markers_to_passage(p) ==
    LET Loop(groups) ==
            LET F[k \in 0..Len(groups)] ==
                    IF k = 0
                    THEN [anns |-> p.annotations, text |-> << >>, chunk_end |-> 0,
                          chars_added |-> 0, err |-> FALSE]
                    ELSE With(F[k - 1], LAMBDA last :
                            IF last.err THEN last
                            ELSE MarkGroupStep(p, last, groups[k]))
            IN  F[Len(groups)]
        Result(end, text, bad) ==
            IF end.err \/ bad
            THEN [p |-> [p EXCEPT !.annotations = end.anns], err |-> TRUE]
            ELSE [p |-> [p EXCEPT !.annotations = end.anns, !.text = text],
                  err |-> FALSE]
    IN  With(Loop(group_annotations_by_span(p.annotations)), LAMBDA end :
        With(end.text \o PyFrom(p.text, end.chunk_end), LAMBDA text :
            Result(end, text, ~end.err /\ Len(text) # Len(p.text) + end.chars_added)))

\* the body of AddMentionMarkers.apply
AddMentionMarkers_apply_body(ex) ==
    LET F[k \in 0..Len(ex.passages)] ==
            IF k = 0 THEN [passages |-> ex.passages, err |-> FALSE]
            ELSE With(F[k - 1], LAMBDA last :
                    IF last.err THEN last
                    ELSE IF Len(ex.passages[k].annotations) > 0
                    THEN With(add_markers_to_passage(ex.passages[k]), LAMBDA r :
                            [passages |-> [last.passages EXCEPT ![k] = r.p],
                             err |-> r.err])
                    ELSE last)
        Result(end, obj, out) ==
            IF end.err THEN Raised("RuntimeError", obj, "apply", << >>)
            ELSE Outcome("returned", out, out, TRUE, "none", out, << >>)
    IN  With(F[Len(ex.passages)], LAMBDA end :
            Result(end,
                   [ex EXCEPT !.passages = end.passages],
                   [ex EXCEPT !.passages = end.passages,
                              !.passages_text_modified = TRUE,
                              !.annotations_offsets_relative_to_passage = TRUE]))

\* AddMentionMarkers.apply (decorated with transformmethod)
AddMentionMarkers_apply(ex) ==
    transformmethod(ex, AddMentionMarkers_apply_body(ex))

\* the body of AddMentionMarkers.safe_apply
AddMentionMarkers_safe_apply_body(drop, ex) ==
    CheckOffsets(drop, CatchRuntimeError(drop, ex, AddMentionMarkers_apply(ex)))

\* AddMentionMarkers.safe_apply (decorated with transformmethod)
AddMentionMarkers_safe_apply(drop, ex) ==
    transformmethod(ex, AddMentionMarkers_safe_apply_body(drop, ex))

-----------------------------------------------------------------------------
(* segment.py: SplitIntoSentences, constructed with sentinel_token = "@" *)

\* Sentence ranges are pairs <<start, end>>, relative to the passage text, in
\* the order of the dict get_sentences_offsets builds.

\* the runs of consecutive positions of the set S, in ascending order
\* (the groupby of find_sentences_to_be_merged)
Runs(S) ==
    LET firsts == {i \in S : (i - 1) \notin S}
        RunOf(i) == {j \in S : j >= i /\ \A x \in i..j : x \in S}
        F[T \in SUBSET firsts] ==
            IF T = {} THEN << >>
            ELSE LET i == MinOf(T)
                 IN  <<[first |-> i, last |-> MaxOf(RunOf(i))]>> \o F[T \ {i}]
    IN  F[firsts]

\* SplitIntoSentences.find_sentences_to_be_merged
find_sentences_to_be_merged(sentences_offsets, anns, offset) ==
    LET n == Len(sentences_offsets)
        Crosses(a, i) ==
            LET x == sentences_offsets[i]
                y == sentences_offsets[i + 1]
            IN  /\ (a.start - offset) \in x[1]..x[2]
                /\ (a.end - offset) \in y[1]..y[2]
        contiguous_sentences ==
            UNION {{i, i + 1} : i \in {j \in 1..(n - 1) :
                        \E k \in 1..Len(anns) : Crosses(anns[k], j)}}
    IN  Runs(contiguous_sentences)

\* a merge that widens the first sentence of a run and pops no sentence.
\* C25 does not hold of it.
apply_merges_to_sentences_offsets_without_pop(offsets, merges) ==
    LET New(i) == IF \E m \in 1..Len(merges) : merges[m].first = i
                  THEN LET m == CHOOSE m \in 1..Len(merges) : merges[m].first = i
                       IN  <<offsets[i][1], offsets[merges[m].last][2]>>
                  ELSE offsets[i]
        vals   == [k \in 1..Len(offsets) |-> New(k)]
        order  == StableSortIdx(Len(vals), LAMBDA i, j : vals[i][1] < vals[j][1])
    IN  [k \in 1..Len(vals) |-> vals[order[k]]]

\* SplitIntoSentences.apply_merges_to_sentences_offsets
apply_merges_to_sentences_offsets(offsets, merges) ==
    LET popped == UNION {(merges[m].first + 1)..merges[m].last : m \in 1..Len(merges)}
        New(i) == IF \E m \in 1..Len(merges) : merges[m].first = i
                  THEN LET m == CHOOSE m \in 1..Len(merges) : merges[m].first = i
                       IN  <<offsets[i][1], offsets[merges[m].last][2]>>
                  ELSE offsets[i]
        kept   == SelectIdx(offsets, LAMBDA i : i \notin popped)
        vals   == [k \in 1..Len(kept) |-> New(kept[k])]
        order  == StableSortIdx(Len(vals), LAMBDA i, j : vals[i][1] < vals[j][1])
    IN  [k \in 1..Len(vals) |-> vals[order[k]]]

\* SplitIntoSentences.merge_sentences_with_crossing_annotations
RECURSIVE merge_sentences_with_crossing_annotations(_, _, _)
merge_sentences_with_crossing_annotations(sentences_offsets, anns, offset) ==
    LET merges == find_sentences_to_be_merged(sentences_offsets, anns, offset)
    IN  IF Len(merges) = 0 THEN sentences_offsets
        ELSE merge_sentences_with_crossing_annotations(
                apply_merges_to_sentences_offsets(sentences_offsets, merges),
                anns, offset)

\* the number of rounds of merge_sentences_with_crossing_annotations that
\* found a merge
RECURSIVE MergeRounds(_, _, _)
MergeRounds(sentences_offsets, anns, offset) ==
    LET merges == find_sentences_to_be_merged(sentences_offsets, anns, offset)
    IN  IF Len(merges) = 0 THEN 0
        ELSE 1 + MergeRounds(
                apply_merges_to_sentences_offsets(sentences_offsets, merges),
                anns, offset)

\* sorted(sentences_offsets.values(), key=lambda x: x[0])
SortedSentences(sentences_offsets) ==
    LET order == StableSortIdx(Len(sentences_offsets),
                    LAMBDA i, j : sentences_offsets[i][1] < sentences_offsets[j][1])
    IN  [k \in 1..Len(sentences_offsets) |-> sentences_offsets[order[k]]]

\* get_annotations_grouped_by_sentence without its sanity check. C7 does not
\* hold of it.
get_annotations_grouped_by_sentence_unchecked(sentences_offsets, p) ==
    LET Grouped(ss) ==
            [k \in 1..Len(ss) |->
                SelectIdx(p.annotations, LAMBDA i :
                    /\ p.annotations[i].start - p.offset >= ss[k][1]
                    /\ p.annotations[i].end - p.offset <= ss[k][2])]
    IN  [grouped |-> Grouped(SortedSentences(sentences_offsets)), err |-> FALSE]

\* SplitIntoSentences.get_annotations_grouped_by_sentence: per sentence the
\* positions (in p.annotations) of its annotations, and whether the sanity
\* check raised RuntimeError
get_annotations_grouped_by_sentence(sentences_offsets, p) ==
    LET Grouped(ss) ==
            [k \in 1..Len(ss) |->
                SelectIdx(p.annotations, LAMBDA i :
                    /\ p.annotations[i].start - p.offset >= ss[k][1]
                    /\ p.annotations[i].end - p.offset <= ss[k][2])]
    IN  With(Grouped(SortedSentences(sentences_offsets)), LAMBDA grouped :
            [grouped |-> grouped,
             err |-> Len(Flatten(grouped)) # Len(p.annotations)])

\* chars[s:e] = mask on a Python list
PySliceAssign(chars, s, e, mask) ==
    LET n  == Len(chars)
        s1 == Norm(s, n)
        e1 == Max(Norm(e, n), s1)
    IN  SubSeq(chars, 1, s1) \o mask \o SubSeq(chars, e1 + 1, n)

\* SplitIntoSentences.get_text_with_masked_annotations (slice assignment on a
\* list never raises ValueError)
get_text_with_masked_annotations(p) ==
    LET F[i \in 0..Len(p.annotations)] ==
            IF i = 0 THEN p.text
            ELSE PySliceAssign(F[i - 1],
                               p.annotations[i].start - p.offset,
                               p.annotations[i].end - p.offset,
                               Repeat(SENTINEL, Len(p.annotations[i].text)))
    IN  With(F[Len(p.annotations)], LAMBDA masked_text :
            [masked_text |-> masked_text, err |-> Len(masked_text) # Len(p.text)])

\* one round of the loop of replace_masked_annotations_and_remap_offsets for
\* the group g (positions in anns)
ReplaceGroupStep(p, acc, g) ==
    With(is_independent_annotation(g), LAMBDA indep :
    With(IF indep THEN acc.anns[g[1]].text
         ELSE SpanText(get_text_span_multi_annotation(p, acc.anns, g)),
         LAMBDA annotation_text :
    With(Len(annotation_text), LAMBDA length :
    With(Find(Repeat(SENTINEL, length), PyFrom(acc.text, acc.last_match)),
         LAMBDA match :
    With(Find(Repeat(SENTINEL, length), acc.text), LAMBDA first :
    With(PySlice(acc.text, 0, first) \o annotation_text
            \o PyFrom(acc.text, first + length), LAMBDA text :
    With(Len(PySlice(text, 0, acc.last_match)), LAMBDA offset :
        IF match = -1 THEN [acc EXCEPT !.err = TRUE]
        ELSE IF indep
        THEN [acc EXCEPT
                !.text = text,
                !.last_match = match + length + offset,
                !.anns[g[1]].start = match + offset,
                !.anns[g[1]].end = match + offset + Len(acc.anns[g[1]].text)]
        ELSE With(remap_offsets_grouped_annotations(acc.anns, g, annotation_text,
                                                    match + offset), LAMBDA rm :
                [acc EXCEPT
                    !.text = text,
                    !.last_match = match + length + offset,
                    !.anns = rm.anns,
                    !.err = rm.err]))))))))

\* SplitIntoSentences.replace_masked_annotations_and_remap_offsets for the
\* sentence whose annotations are at the positions sidx of anns (the
\* annotations of passage p)
replace_masked_annotations_and_remap_offsets(text, anns, sidx, p) ==
    LET Loop(groups) ==
            LET F[k \in 0..Len(groups)] ==
                    IF k = 0 THEN [text |-> text, last_match |-> 0, anns |-> anns,
                                   err |-> FALSE]
                    ELSE With(F[k - 1], LAMBDA last :
                            IF last.err THEN last
                            ELSE ReplaceGroupStep(p, last, groups[k]))
            IN  F[Len(groups)]
    IN  With(group_annotations_by_span([k \in 1..Len(sidx) |-> anns[sidx[k]]]),
             LAMBDA local :
            Loop([k \in 1..Len(local) |->
                    [m \in 1..Len(local[k]) |-> sidx[local[k][m]]]]))

\* SplitIntoSentences.replace_sentinel_token
replace_sentinel_token(p) ==
    LET Blank(t) == [i \in 1..Len(t) |-> IF t[i] = SENTINEL THEN " " ELSE t[i]]
    IN  [p EXCEPT
            !.text = Blank(@),
            !.annotations = [i \in 1..Len(p.annotations) |->
                                [p.annotations[i] EXCEPT !.text = Blank(@)]]]

\* the part of the loop of SplitIntoSentences.apply for one passage, the
\* sentence detector having answered `detected`: the passage object as it is
\* left, the sentences (new passages), whether RuntimeError was raised and
\* where
SplitPassage(p0, detected) ==
    LET Sentences(p, by, mk, ss) ==
            LET F[k \in 0..Len(ss)] ==
                    IF k = 0 THEN [anns |-> p.annotations, sentences |-> << >>,
                                   err |-> FALSE]
                    ELSE
                    With(F[k - 1], LAMBDA last :
                    IF last.err THEN last
                    ELSE
                    With(PySlice(mk.masked_text, ss[k][1], ss[k][2]), LAMBDA text :
                    With(by.grouped[k], LAMBDA sidx :
                    With(IF Len(sidx) > 0
                         THEN replace_masked_annotations_and_remap_offsets(
                                text, last.anns, sidx, p)
                         ELSE [text |-> text, anns |-> last.anns, err |-> FALSE],
                         LAMBDA r :
                        [anns |-> r.anns,
                         err |-> r.err,
                         sentences |->
                            IF r.err THEN last.sentences
                            ELSE Append(last.sentences,
                                    [id |-> p.id, offset |-> ss[k][1], text |-> r.text,
                                     annotations |->
                                        [m \in 1..Len(sidx) |-> r.anns[sidx[m]]],
                                     type |-> p.type])]))))
            IN  F[Len(ss)]
        Result(p, by, mk, ss) ==
            IF by.err THEN [p |-> p, sentences |-> << >>, err |-> TRUE,
                            where |-> "partition", grouped |-> by.grouped]
            ELSE IF mk.err THEN [p |-> p, sentences |-> << >>, err |-> TRUE,
                                 where |-> "mask", grouped |-> by.grouped]
            ELSE With(Sentences(p, by, mk, ss), LAMBDA end :
                    [p |-> [p EXCEPT !.annotations = end.anns],
                     sentences |-> end.sentences, err |-> end.err,
                     where |-> IF end.err THEN "remap" ELSE "none",
                     grouped |-> by.grouped])
    IN  With(replace_sentinel_token(p0), LAMBDA p :
        With(merge_sentences_with_crossing_annotations(
                detected, p.annotations, p.offset), LAMBDA sentences_offsets :
            Result(p,
                   get_annotations_grouped_by_sentence(sentences_offsets, p),
                   get_text_with_masked_annotations(p),
                   SortedSentences(sentences_offsets))))

\* the body of SplitIntoSentences.apply; seg[k] is what get_sentences_offsets
\* returns for passage k
SplitIntoSentences_apply_body(ex, seg) ==
    LET F[k \in 0..Len(ex.passages)] ==
            IF k = 0 THEN [passages |-> ex.passages, sentences |-> << >>,
                           err |-> FALSE, log |-> << >>]
            ELSE With(F[k - 1], LAMBDA last :
                    IF last.err THEN last
                    ELSE With(SplitPassage(ex.passages[k], seg[k]), LAMBDA r :
                            [passages |-> [last.passages EXCEPT ![k] = r.p],
                             sentences |-> last.sentences \o r.sentences,
                             err |-> r.err,
                             log |-> Append(last.log,
                                        [passage |-> k, where |-> r.where,
                                         before |-> ex.passages[k].annotations,
                                         grouped |-> r.grouped])]))
        Result(end, obj, out) ==
            IF end.err THEN Raised("RuntimeError", obj, "apply", end.log)
            ELSE Outcome("returned", out, out, TRUE, "none", out, end.log)
    IN  With(F[Len(ex.passages)], LAMBDA end :
            Result(end,
                   [ex EXCEPT !.passages = end.passages],
                   [ex EXCEPT !.passages = end.sentences,
                              !.passages_text_modified = TRUE,
                              !.annotations_offsets_relative_to_passage = TRUE]))

\* SplitIntoSentences.apply (decorated with transformmethod)
SplitIntoSentences_apply(ex, seg) ==
    transformmethod(ex, SplitIntoSentences_apply_body(ex, seg))

\* the body of SplitIntoSentences.safe_apply
SplitIntoSentences_safe_apply_body(drop, ex, seg) ==
    CheckOffsets(drop, CatchRuntimeError(drop, ex, SplitIntoSentences_apply(ex, seg)))

\* SplitIntoSentences.safe_apply (decorated with transformmethod)
SplitIntoSentences_safe_apply(drop, ex, seg) ==
    transformmethod(ex, SplitIntoSentences_safe_apply_body(drop, ex, seg))

-----------------------------------------------------------------------------
(* data.py: building and preparing an example *)

IDENTIFIERS_CONNECTOR == ";"

\* Annotation.pack_identifiers: ";".join(identifiers)
pack_identifiers(identifiers) ==
    Flatten([i \in 1..Len(identifiers) |->
                IF i = 1 THEN <<identifiers[i]>>
                ELSE <<IDENTIFIERS_CONNECTOR, identifiers[i]>>])

\* Annotation.to_tuple
to_tuple(a, identifiers) ==
    IF identifiers
    THEN <<a.start, a.end, a.text, a.entity_type,
           IF a.foreign THEN a.identifiers ELSE pack_identifiers(a.identifiers)>>
    ELSE <<a.start, a.end, a.text, a.entity_type>>

\* the annotations in reverse order instead of sorted. C10 does not hold of
\* it.
ReversedOrder(anns) == [k \in 1..Len(anns) |-> anns[Len(anns) + 1 - k]]

\* sorted(annotations, key=lambda x: x.start)
SortedByStart(anns) ==
    LET order == StableSortIdx(Len(anns), LAMBDA i, j : anns[i].start < anns[j].start)
    IN  [k \in 1..Len(anns) |-> anns[order[k]]]

\* Example.drop_duplicate_annotations
drop_duplicate_annotations(ex) ==
    LET OnePassage(srt, seen) ==
            LET F[i \in 0..Len(srt)] ==
                    IF i = 0 THEN [annotations |-> << >>, seen |-> seen]
                    ELSE With(F[i - 1], LAMBDA last :
                         With(to_tuple(srt[i], TRUE), LAMBDA key :
                            IF key \notin last.seen
                            THEN [annotations |-> Append(last.annotations, srt[i]),
                                  seen |-> last.seen \cup {key}]
                            ELSE last))
            IN  F[Len(srt)]
        G[k \in 0..Len(ex.passages)] ==
            IF k = 0 THEN [passages |-> ex.passages, seen |-> {}]
            ELSE With(G[k - 1], LAMBDA last :
                 With(OnePassage(SortedByStart(ex.passages[k].annotations), last.seen),
                      LAMBDA r :
                    [passages |-> [last.passages EXCEPT
                                        ![k].annotations = r.annotations],
                     seen |-> r.seen]))
    IN  [ex EXCEPT !.passages = G[Len(ex.passages)].passages]

\* Example.group_annotations_by_span: of the annotations of a passage that are
\* equal but for the identifiers, the first stays, and its original
\* entity_type and identifiers become the lists of those of all of them
Example_group_annotations_by_span(ex) ==
    LET Unique(anns) ==
            LET keep == SelectIdx(anns, LAMBDA i :
                            \A j \in 1..(i - 1) :
                                to_tuple(anns[j], FALSE) # to_tuple(anns[i], FALSE))
                Same(i) == SelectIdx(anns, LAMBDA j :
                                to_tuple(anns[j], FALSE) = to_tuple(anns[i], FALSE))
                Merged(i, same) ==
                    IF Len(same) > 1
                    THEN [anns[i] EXCEPT
                            !.original.entity_type =
                                [m \in 1..Len(same) |-> anns[same[m]].original.entity_type],
                            !.original.identifiers =
                                [m \in 1..Len(same) |-> anns[same[m]].original.identifiers]]
                    ELSE anns[i]
            IN  [k \in 1..Len(keep) |-> Merged(keep[k], Same(keep[k]))]
    IN  [ex EXCEPT !.passages =
            [k \in 1..Len(ex.passages) |->
                [ex.passages[k] EXCEPT !.annotations = Unique(@)]]]

\* Example.prepare
prepare(ex) ==
    LET Ids(anns, order, before) ==
            [i \in 1..Len(anns) |->
                [anns[i] EXCEPT
                    !.id = before + (CHOOSE r \in 1..Len(anns) : order[r] = i) - 1]]
        Numbered(e2) ==
            [e2 EXCEPT
                !.passages =
                    [k \in 1..Len(e2.passages) |->
                        [e2.passages[k] EXCEPT !.annotations =
                            Ids(@,
                                StableSortIdx(Len(@),
                                    LAMBDA i, j :
                                        e2.passages[k].annotations[i].start
                                            < e2.passages[k].annotations[j].start),
                                SumLen([j \in 1..(k - 1) |->
                                            e2.passages[j].annotations]))]],
                !.prepared = TRUE]
    IN  Numbered(Example_group_annotations_by_span(drop_duplicate_annotations(ex)))

\* the document: the passages' texts joined by one separator
DocumentText(texts) ==
    Flatten([k \in 1..Len(texts) |->
                IF k = 1 THEN texts[k] ELSE <<" ">> \o texts[k]])

\* Example.from_text_and_annotations: texts are the passages' texts,
\* annotations have document-wide offsets; a passage takes the annotations
\* that lie inside it, in the order given
from_text_and_annotations(eid, texts, annotations) ==
    LET Off(k) == SumLen([j \in 1..(k - 1) |-> texts[j]]) + (k - 1)
        Mine(k) == SelectIdx(annotations, LAMBDA i :
                        /\ annotations[i].start >= Off(k)
                        /\ annotations[i].end <= Off(k) + Len(texts[k]))
    IN  NewExample(eid,
            [k \in 1..Len(texts) |->
                [id |-> k - 1, offset |-> Off(k), text |-> texts[k],
                 annotations |-> [i \in 1..Len(Mine(k)) |-> annotations[Mine(k)[i]]],
                 type |-> "passage"]])

\* the annotations of the mentions q, records [start, end, foreign], of the
\* texts ts; an annotation has no id (-1) until prepare
AnnotationsOf(ts, q) ==
    [i \in 1..Len(q) |->
        Annotation(-1, q[i].start, q[i].end,
                   PySlice(DocumentText(ts), q[i].start, q[i].end), q[i].foreign)]

-----------------------------------------------------------------------------
(* The examples and detector answers the model draws from *)

\* the texts of the passages of an example
Layouts ==
    LET texts == UNION {[1..n -> Alphabet] : n \in 1..MaxLen}
    IN  {ts \in UNION {[1..k -> texts] : k \in 1..MaxPassages} : SumLen(ts) <= MaxLen}

\* the mentions that lie inside one passage of the texts ts
Mentions(ts) ==
    LET Off(k) == SumLen([j \in 1..(k - 1) |-> ts[j]]) + (k - 1)
        total  == SumLen(ts) + Len(ts) - 1
    IN  {m \in [start : 0..(total - 1), end : 1..total, foreign : BOOLEAN] :
            /\ m.start < m.end
            /\ \E k \in 1..Len(ts) :
                    m.start >= Off(k) /\ m.end <= Off(k) + Len(ts[k])}

\* the lists of at most n different mentions of M, in the order of their start
RECURSIVE SortedLists(_, _)
SortedLists(M, n) ==
    IF n = 0 THEN {<< >>}
    ELSE LET prev == SortedLists(M, n - 1)
         IN  prev \cup
             {Append(x[1], x[2]) : x \in
                {y \in prev \X M :
                    /\ Len(y[1]) = n - 1
                    /\ \A i \in 1..Len(y[1]) :
                            y[1][i] # y[2] /\ y[1][i].start <= y[2].start}}

\* prepared, offset-consistent examples
PreparedExamples ==
    UNION {{prepare(from_text_and_annotations("d1", ts, AnnotationsOf(ts, q))) :
                q \in SortedLists(Mentions(ts), MaxAnn)} : ts \in Layouts}

\* the runs of characters other than " " of a text, as <<start, end>>
Tokens(t) ==
    LET n == Len(t)
        starts == {i \in 0..(n - 1) : t[i + 1] # " " /\ (i = 0 \/ t[i] = " ")}
        EndOf(s) == MinOf({j \in (s + 1)..n : j = n \/ t[j + 1] = " "})
        F[S \in SUBSET starts] ==
            IF S = {} THEN << >>
            ELSE LET s == MinOf(S) IN <<<<s, EndOf(s)>>>> \o F[S \ {s}]
    IN  F[starts]

\* SplitIntoSentences.get_sentences_offsets: the answers the sentence
\* segmenter can give for a text (a sentence is a run of tokens, from the
\* first character of its first token to the last character of its last one)
get_sentences_offsets(text) ==
    LET toks == Tokens(text)
        n    == Len(toks)
        Sentences(B) ==
            LET firsts == {1} \cup {k + 1 : k \in B}
                F[S \in SUBSET firsts] ==
                    IF S = {} THEN << >>
                    ELSE LET f == MinOf(S)
                             l == IF S = {f} THEN n ELSE MinOf(S \ {f}) - 1
                         IN  <<<<toks[f][1], toks[l][2]>>>> \o F[S \ {f}]
            IN  F[firsts]
    IN  IF n = 0 THEN {<< >>}
        ELSE {Sentences(B) : B \in SUBSET (1..(n - 1))}

RECURSIVE Product(_)
Product(sets) ==
    IF sets = << >> THEN {<< >>}
    ELSE {<<h>> \o t : h \in Head(sets), t \in Product(Tail(sets))}

\* the answers of the segmenter for the passages of ex, one per passage
Detections(ex) ==
    Product([k \in 1..Len(ex.passages) |->
                get_sentences_offsets(replace_sentinel_token(ex.passages[k]).text)])

-----------------------------------------------------------------------------
(* One call of a transformation on a prepared example *)

NoResult == Outcome("none", NoExample, NoExample, FALSE, "none", NoExample, << >>)

\* the variables of the other specifications
IdleGroup == g_in = << >> /\ g_out = << >>

IdleMerge ==
    /\ m_sents = << >> /\ m_anns = << >> /\ m_out = << >> /\ m_rounds = 0
    /\ m_merges = << >>

IdleDedup == d_in = NoExample /\ d_prev = NoExample /\ d_calls = 0

IdlePrepare == p_in = << >> /\ p_out = NoExample /\ p_op = "none"

IdleHash == h_in = << >> /\ h_out = << >> /\ h_op = "none"

IdleChecks == q_in = NoExample /\ q_out = NoExample

IdleCluster == c_in = << >> /\ c_out = << >> /\ c_op = "none"

IdleCall ==
    /\ given = NoExample /\ allow_drop = FALSE /\ op = "none"
    /\ segm = << >> /\ result = NoResult

Init ==
    /\ example \in PreparedExamples
    /\ given = example
    /\ allow_drop = FALSE
    /\ pc = "ready"
    /\ op = "none"
    /\ segm = << >>
    /\ result = NoResult
    /\ IdleGroup /\ IdleMerge /\ IdleDedup /\ IdlePrepare /\ IdleHash /\ IdleChecks /\ IdleCluster

\* the method `name` of a transformation constructed with allow_drop = drop is
\* called on the example and ends with outcome r
Call(name, drop, r, seg) ==
    /\ pc = "ready"
    /\ pc' = "done"
    /\ op' = name
    /\ allow_drop' = drop
    /\ segm' = seg
    /\ result' = r
    /\ example' = r.obj
    /\ UNCHANGED <<given, g_in, g_out, m_sents, m_anns, m_out,
                   m_rounds, d_in, d_prev, d_calls,
                   p_in, p_out, p_op, h_in, h_out, h_op,
                   q_in, q_out,
                   c_in, c_out, c_op,
                   m_merges>>

\* apply never reads allow_drop: the transformation keeps the default
CleanApply ==
    Call("CleanIntraWordMentions.apply", allow_drop,
         CleanIntraWordMentions_apply(example), << >>)

CleanSafeApply ==
    \E drop \in BOOLEAN :
        Call("CleanIntraWordMentions.safe_apply", drop,
             CleanIntraWordMentions_safe_apply(drop, example), << >>)

MarkApply ==
    Call("AddMentionMarkers.apply", allow_drop,
         AddMentionMarkers_apply(example), << >>)

MarkSafeApply ==
    \E drop \in BOOLEAN :
        Call("AddMentionMarkers.safe_apply", drop,
             AddMentionMarkers_safe_apply(drop, example), << >>)

SegmentApply ==
    \E seg \in Detections(example) :
        Call("SplitIntoSentences.apply", allow_drop,
             SplitIntoSentences_apply(example, seg), seg)

SegmentSafeApply ==
    \E drop \in BOOLEAN, seg \in Detections(example) :
        Call("SplitIntoSentences.safe_apply", drop,
             SplitIntoSentences_safe_apply(drop, example, seg), seg)

Next ==
    \/ CleanApply
    \/ CleanSafeApply
    \/ MarkApply
    \/ MarkSafeApply
    \/ SegmentApply
    \/ SegmentSafeApply

Spec == Init /\ [][Next]_vars

-----------------------------------------------------------------------------
(* BaseTransformation.group_annotations_by_span on its own *)

\* positions of the text the grouped annotations lie in
MaxSpan == 4

\* non-empty lists of at most MaxAnn annotations of one passage, in any order
GroupInputs ==
    LET spans == {sp \in (0..(MaxSpan - 1)) \X (1..MaxSpan) : sp[1] < sp[2]}
    IN  UNION {{[i \in 1..n |->
                    Annotation(i - 1, q[i][1], q[i][2],
                               Repeat("a", q[i][2] - q[i][1]), FALSE)] :
                 q \in [1..n -> spans]} : n \in 1..MaxAnn}

InitGroup ==
    /\ g_in \in GroupInputs
    /\ g_out = << >>
    /\ pc = "ready"
    /\ example = NoExample
    /\ IdleCall /\ IdleMerge /\ IdleDedup /\ IdlePrepare /\ IdleHash /\ IdleChecks /\ IdleCluster

Group ==
    /\ pc = "ready"
    /\ pc' = "done"
    /\ g_out' = group_annotations_by_span(g_in)
    /\ UNCHANGED <<example, given, allow_drop, op, segm, result, g_in,
                   m_sents, m_anns, m_out, m_rounds, d_in, d_prev, d_calls,
                   p_in, p_out, p_op, h_in, h_out, h_op,
                   q_in, q_out,
                   c_in, c_out, c_op,
                   m_merges>>

NextGroup == Group

SpecGroup == InitGroup /\ [][NextGroup]_vars

-----------------------------------------------------------------------------
(* SplitIntoSentences.merge_sentences_with_crossing_annotations on its own *)

\* positions of the passage text
MaxPos == 5
\* candidate sentences of a passage
MaxSents == 3
\* annotations of the passage
MaxMentions == 2

\* disjoint candidate sentences, in text order
SentenceLists ==
    LET ranges == {r \in (0..(MaxPos - 1)) \X (1..MaxPos) : r[1] < r[2]}
    IN  UNION {{q \in [1..n -> ranges] :
                    \A i \in 1..(n - 1) : q[i][2] <= q[i + 1][1]} : n \in 1..MaxSents}

MergeMentions ==
    LET spans == {sp \in (0..(MaxPos - 1)) \X (1..MaxPos) : sp[1] < sp[2]}
    IN  UNION {{[i \in 1..n |->
                    Annotation(i - 1, q[i][1], q[i][2],
                               Repeat("a", q[i][2] - q[i][1]), FALSE)] :
                 q \in [1..n -> spans]} : n \in 1..MaxMentions}

InitMerge ==
    /\ m_sents \in SentenceLists
    /\ m_anns \in MergeMentions
    /\ m_out = << >>
    /\ m_rounds = 0
    /\ m_merges = << >>
    /\ pc = "ready"
    /\ example = NoExample
    /\ IdleCall /\ IdleGroup /\ IdleDedup /\ IdlePrepare /\ IdleHash /\ IdleChecks /\ IdleCluster

Merge ==
    /\ pc = "ready"
    /\ pc' = "done"
    /\ m_out' = merge_sentences_with_crossing_annotations(m_sents, m_anns, 0)
    /\ m_rounds' = MergeRounds(m_sents, m_anns, 0)
    /\ UNCHANGED <<example, given, allow_drop, op, segm, result, g_in, g_out,
                   m_sents, m_anns, d_in, d_prev, d_calls,
                   p_in, p_out, p_op, h_in, h_out, h_op,
                   q_in, q_out,
                   c_in, c_out, c_op,
                   m_merges>>

NextMerge == Merge

SpecMerge == InitMerge /\ [][NextMerge]_vars

-----------------------------------------------------------------------------
(* Example.drop_duplicate_annotations, called repeatedly *)

\* calls of drop_duplicate_annotations on one example
MaxCalls == 2

\* examples as from_text_and_annotations builds them: annotations in any
\* order, the same annotation possibly several times, not yet prepared
DedupExamples ==
    LET plain == {ts \in Layouts : \A k \in 1..Len(ts) : \A i \in 1..Len(ts[k]) :
                                        ts[k][i] = "a"}
    IN  UNION {{from_text_and_annotations("d1", ts, AnnotationsOf(ts, q)) :
                    q \in UNION {[1..n -> Mentions(ts)] : n \in 0..MaxAnn}} :
               ts \in plain}

InitDedup ==
    /\ example \in DedupExamples
    /\ d_in = example
    /\ d_prev = example
    /\ d_calls = 0
    /\ pc = "ready"
    /\ IdleCall /\ IdleGroup /\ IdleMerge /\ IdlePrepare /\ IdleHash /\ IdleChecks /\ IdleCluster

DropDuplicates ==
    /\ d_calls < MaxCalls
    /\ d_calls' = d_calls + 1
    /\ d_prev' = example
    /\ example' = drop_duplicate_annotations(example)
    /\ UNCHANGED <<given, allow_drop, pc, op, segm, result, g_in, g_out,
                   m_sents, m_anns, m_out, m_rounds, d_in,
                   p_in, p_out, p_op, h_in, h_out, h_op,
                   q_in, q_out,
                   c_in, c_out, c_op,
                   m_merges>>

NextDedup == DropDuplicates

SpecDedup == InitDedup /\ [][NextDedup]_vars

-----------------------------------------------------------------------------
(* Example.prepare and its steps on an example built from raw annotations *)

\* the identifiers an annotation can be given: none, an empty list, one
\* identifier
GivenIdentifiers == {None, << >>, <<"1">>, <<"2">>}

\* texts without markup
PlainLayouts ==
    {ts \in Layouts : \A k \in 1..Len(ts) : \A i \in 1..Len(ts[k]) : ts[k][i] = "a"}

\* the arguments of Annotation(...) for the texts ts: a foreign annotation is
\* given no identifiers
AnnotationArgs(ts) ==
    {[start |-> x[1].start, end |-> x[1].end, foreign |-> x[1].foreign,
      identifiers |-> x[2]] :
        x \in {y \in Mentions(ts) \X GivenIdentifiers : y[1].foreign => y[2] = None}}

\* the assertion of Annotation.__post_init__
post_init_asserts(m) == m.foreign \/ m.identifiers # None

\* the example of the input: every annotation is constructed, then the example
BuildExample(in) ==
    from_text_and_annotations("d1", in.texts,
        [i \in 1..Len(in.annotations) |->
            With(in.annotations[i], LAMBDA m :
                NewAnnotation(-1, m.start, m.end,
                              PySlice(DocumentText(in.texts), m.start, m.end),
                              IF m.foreign THEN ForeignType ELSE TargetType,
                              m.identifiers, m.foreign))])

\* the outcome of a method of the example built from the input, which leaves
\* the example as ex
PrepareOutcome(in, ex) ==
    IF \A i \in 1..Len(in.annotations) : post_init_asserts(in.annotations[i])
    THEN [kind |-> "returned", example |-> ex]
    ELSE [kind |-> "AssertionError", example |-> NoExample]

InitPrepare ==
    /\ \E ts \in PlainLayouts, n \in 0..MaxAnn :
            \E q \in [1..n -> AnnotationArgs(ts)] :
                p_in = [texts |-> ts, annotations |-> q]
    /\ p_out = NoExample
    /\ p_op = "none"
    /\ pc = "ready"
    /\ example = NoExample
    /\ IdleCall /\ IdleGroup /\ IdleMerge /\ IdleDedup /\ IdleHash /\ IdleChecks /\ IdleCluster

PrepareStep(name, out) ==
    /\ pc = "ready"
    /\ pc' = "done"
    /\ p_op' = name
    /\ p_out' = out
    /\ UNCHANGED <<example, given, allow_drop, op, segm, result, g_in, g_out,
                   m_sents, m_anns, m_out, m_rounds, d_in, d_prev, d_calls,
                   p_in, h_in, h_out, h_op,
                   q_in, q_out,
                   c_in, c_out, c_op,
                   m_merges>>

DropDuplicateAnnotations ==
    PrepareStep("drop_duplicate_annotations",
                PrepareOutcome(p_in, drop_duplicate_annotations(BuildExample(p_in))))

GroupAnnotationsBySpan ==
    PrepareStep("group_annotations_by_span",
                PrepareOutcome(p_in, Example_group_annotations_by_span(BuildExample(p_in))))

Prepare ==
    PrepareStep("prepare", PrepareOutcome(p_in, prepare(BuildExample(p_in))))

NextPrepare ==
    \/ DropDuplicateAnnotations
    \/ GroupAnnotationsBySpan
    \/ Prepare

SpecPrepare == InitPrepare /\ [][NextPrepare]_vars

-----------------------------------------------------------------------------
(* Annotation.to_hexdigest on the annotations of a prepared example *)

\* str(x) of a list of identifiers, as characters: "['1', '2']"
PyStrList(ids) ==
    <<"[">> \o Flatten([i \in 1..Len(ids) |->
                (IF i = 1 THEN << >> ELSE <<",", " ">>) \o <<"'", ids[i], "'">>])
           \o <<"]">>

\* str(x) of an annotation's original identifiers
PyStrIdentifiers(ids) == IF ids = None THEN None ELSE PyStrList(ids)

\* utils.compute_hexdigest: the digest of the concatenation of the parts; the
\* hash function is taken to be injective and the digest is written as the
\* hashed string itself
compute_hexdigest(message) == Flatten(message)

\* the parts of the message hashed for one annotation
HexdigestMessage(eid, o, entity_type, identifiers) ==
    <<<<eid>>, o.location, <<ToString(o.start)>>, <<ToString(o.end)>>, o.text,
      <<entity_type>>, PyStrIdentifiers(identifiers)>>

\* list(hexdigests): the members of a set in its iteration order, which is
\* that of the strings' hashes; rank says where each member comes
ListOfSet(members, rank) ==
    With(StableSortIdx(Len(members), LAMBDA i, j : rank[i] < rank[j]),
         LAMBDA order : [k \in 1..Len(members) |-> members[order[k]]])

\* Annotation._grouped_to_hexdigest
grouped_to_hexdigest(a, eid, rank) ==
    IF Len(a.original.identifiers) # Len(a.original.entity_type)
    THEN [kind |-> "AssertionError", out |-> << >>]
    ELSE With([k \in 1..Len(a.original.identifiers) |->
                    compute_hexdigest(HexdigestMessage(eid, a.original,
                        a.original.entity_type[k], a.original.identifiers[k]))],
              LAMBDA digests :
                With(SelectIdx(digests, LAMBDA k :
                        \A j \in 1..(k - 1) : digests[j] # digests[k]),
                     LAMBDA first :
                        IF Len(first) # Len(a.original.identifiers)
                        THEN [kind |-> "AssertionError", out |-> << >>]
                        ELSE [kind |-> "returned", out |-> ListOfSet(digests, rank)]))

\* Annotation._original_to_hexdigest: original["entity_type"] is a list only
\* where original["identifiers"] is one, and identifiers are None or a list
original_to_hexdigest(a, eid, rank) ==
    IF a.original.identifiers # None
    THEN grouped_to_hexdigest(a, eid, rank)
    ELSE [kind |-> "returned",
          out |-> <<compute_hexdigest(HexdigestMessage(eid, a.original,
                        a.original.entity_type, a.original.identifiers))>>]

\* Annotation.to_hexdigest
to_hexdigest(a, eid, original, rank) ==
    With(original_to_hexdigest(a, eid, rank), LAMBDA r :
        IF r.kind # "returned" \/ original THEN r
        ELSE [kind |-> "returned",
              out |-> IF Len(r.out) > 1 THEN compute_hexdigest(r.out) ELSE r.out[1]])

\* annotations of one span that are hashed together
MaxConstituents == 2

\* the orders in which a set of up to MaxConstituents strings can be iterated
Ranks ==
    {f \in [1..MaxConstituents -> 1..MaxConstituents] :
        \A i, j \in 1..MaxConstituents : f[i] = f[j] => i = j}

\* the same annotations in another order
Reorderings(q) ==
    {[k \in 1..Len(q) |-> q[f[k]]] :
        f \in {g \in [1..Len(q) -> 1..Len(q)] :
                    \A i, j \in 1..Len(q) : g[i] = g[j] => i = j}}

\* to_hexdigest of every annotation of
\* the example, with the span it belongs to
AnnotationHexdigests(ex, original, rank) ==
    [k \in 1..Len(ex.passages) |->
        [i \in 1..Len(ex.passages[k].annotations) |->
            [start |-> ex.passages[k].annotations[i].start,
             end |-> ex.passages[k].annotations[i].end,
             entity_type |-> ex.passages[k].annotations[i].entity_type,
             constituents |-> Len(ex.passages[k].annotations[i].original.identifiers),
             hexdigest |-> to_hexdigest(ex.passages[k].annotations[i], ex.id,
                                        original, rank)]]]

\* the hashes of the prepared example of the texts ts and the annotations q
Hexdigests(ts, q, original, rank) ==
    AnnotationHexdigests(prepare(BuildExample([texts |-> ts, annotations |-> q])),
                               original, rank)

InitHash ==
    /\ \E ts \in {x \in PlainLayouts : Len(x) = 1 /\ SumLen(x) < MaxLen},
          n \in 1..MaxConstituents :
            \E q \in [1..n -> {m \in AnnotationArgs(ts) : post_init_asserts(m)}] :
                \E r \in Reorderings(q) :
                    h_in = [texts |-> ts, first |-> q, second |-> r]
    /\ h_out = << >>
    /\ h_op = "none"
    /\ pc = "ready"
    /\ example = NoExample
    /\ IdleCall /\ IdleGroup /\ IdleMerge /\ IdleDedup /\ IdlePrepare /\ IdleChecks /\ IdleCluster

\* both lists are prepared and every annotation is hashed; each call iterates
\* its set in an order of its own
ToHexdigest ==
    \E original \in BOOLEAN, rank1, rank2 \in Ranks :
        /\ pc = "ready"
        /\ pc' = "done"
        /\ h_op' = IF original THEN "to_hexdigest(original=True)"
                   ELSE "to_hexdigest(original=False)"
        /\ h_out' = <<Hexdigests(h_in.texts, h_in.first, original, rank1),
                      Hexdigests(h_in.texts, h_in.second, original, rank2)>>
        /\ UNCHANGED <<example, given, allow_drop, op, segm, result, g_in, g_out,
                       m_sents, m_anns, m_out, m_rounds, d_in, d_prev, d_calls,
                       p_in, p_out, p_op, h_in,
                   q_in, q_out,
                   c_in, c_out, c_op,
                   m_merges>>

NextHash == ToHexdigest

SpecHash == InitHash /\ [][NextHash]_vars

-----------------------------------------------------------------------------
(* Example.filter_annotations on a prepared example *)

\* a hash that no annotation has
OtherHexdigest == <<"other">>

\* the hashes of the annotation a that are in the set, in the order
\* to_hexdigest lists them
HexdigestsIn(digests, hexdigests) ==
    SelectSeq(digests, LAMBDA h : h \in hexdigests)

\* the inner loops of Example.filter_annotations for one passage: the
\* annotation is appended once for every hash of it that is in the set
FilterPassageAnnotations(p, eid, hexdigests, rank) ==
    Flatten([i \in 1..Len(p.annotations) |->
        [j \in 1..Len(HexdigestsIn(to_hexdigest(p.annotations[i], eid, TRUE, rank).out,
                                   hexdigests)) |-> p.annotations[i]]])

\* Example.filter_annotations
filter_annotations(ex, hexdigests, rank) ==
    IF \E k \in 1..Len(ex.passages) : \E i \in 1..Len(ex.passages[k].annotations) :
            to_hexdigest(ex.passages[k].annotations[i], ex.id, TRUE, rank).kind
                # "returned"
    THEN [kind |-> "AssertionError", ret |-> ex]
    ELSE [kind |-> "returned",
          ret |-> [ex EXCEPT !.passages =
                    [k \in 1..Len(ex.passages) |->
                        [ex.passages[k] EXCEPT !.annotations =
                            FilterPassageAnnotations(ex.passages[k], ex.id,
                                                     hexdigests, rank)]]]]

\* every hash of every annotation of the example
ExampleHexdigests(ex) ==
    UNION {UNION {{to_hexdigest(ex.passages[k].annotations[i], ex.id, TRUE,
                                [n \in 1..MaxConstituents |-> n]).out[j] :
                        j \in 1..Len(to_hexdigest(ex.passages[k].annotations[i], ex.id,
                                TRUE, [n \in 1..MaxConstituents |-> n]).out)} :
                    i \in 1..Len(ex.passages[k].annotations)} :
            k \in 1..Len(ex.passages)}

InitFilter ==
    /\ \E ts \in {x \in PlainLayouts : Len(x) = 1 /\ SumLen(x) < MaxLen},
          n \in 1..MaxConstituents :
            \E q \in [1..n -> {m \in AnnotationArgs(ts) : post_init_asserts(m)}] :
                \E hs \in SUBSET (ExampleHexdigests(
                            prepare(BuildExample([texts |-> ts, annotations |-> q])))
                          \cup {OtherHexdigest}) :
                    h_in = [example |-> prepare(BuildExample(
                                            [texts |-> ts, annotations |-> q])),
                            hexdigests |-> hs]
    /\ h_out = << >>
    /\ h_op = "none"
    /\ pc = "ready"
    /\ example = NoExample
    /\ IdleCall /\ IdleGroup /\ IdleMerge /\ IdleDedup /\ IdlePrepare /\ IdleChecks /\ IdleCluster

\* example.filter_annotations(hexdigests); each to_hexdigest iterates its set
\* of hashes in some order
FilterAnnotations ==
    \E rank \in Ranks :
        /\ pc = "ready"
        /\ pc' = "done"
        /\ h_op' = "filter_annotations"
        /\ h_out' = filter_annotations(h_in.example, h_in.hexdigests, rank)
        /\ UNCHANGED <<example, given, allow_drop, op, segm, result, g_in, g_out,
                       m_sents, m_anns, m_out, m_rounds, d_in, d_prev, d_calls,
                       p_in, p_out, p_op, h_in, q_in, q_out, c_in, c_out, c_op,
                       m_merges>>

NextFilter == FilterAnnotations

SpecFilter == InitFilter /\ [][NextFilter]_vars

-----------------------------------------------------------------------------
(* qaqc.test_offsets on examples whose annotation texts may be wrong *)

\* the entry of `errors` for the annotation a of the passage p
OffsetErrorEntry(p, a) ==
    [by_offset |-> PySlice(p.text, a.start - p.offset, a.end - p.offset),
     start |-> a.start, end |-> a.end, text |-> a.text]

\* the entries test_offsets appends for one passage, srt its annotations
\* sorted by start
PassageOffsetErrors(p, srt) ==
    With(SelectIdx(srt, LAMBDA i :
            srt[i].text # PySlice(p.text, srt[i].start - p.offset, srt[i].end - p.offset)),
         LAMBDA bad : [m \in 1..Len(bad) |-> OffsetErrorEntry(p, srt[bad[m]])])

\* gives up at the first mismatch. C18 does not hold of it.
OffsetErrors_first_only(ex) ==
    PySlice(Flatten([k \in 1..Len(ex.passages) |->
                PassageOffsetErrors(ex.passages[k],
                                    SortedByStart(ex.passages[k].annotations))]), 0, 1)

\* test_offsets: the list `errors` after the loops
OffsetErrors(ex) ==
    Flatten([k \in 1..Len(ex.passages) |->
                PassageOffsetErrors(ex.passages[k],
                                    SortedByStart(ex.passages[k].annotations))])

\* test_offsets: returns when all checks passed, or raises OffsetError with
\* the joined entries
test_offsets_outcome(ex) ==
    IF OffsetErrors(ex) # << >>
    THEN [kind |-> "OffsetError", errors |-> OffsetErrors(ex)]
    ELSE [kind |-> "returned", errors |-> << >>]

\* annotations of the texts ts, some with a text that is not the text at
\* their offsets
AnnotationsWithText(ts, q) ==
    [i \in 1..Len(q) |->
        NewAnnotation(i - 1, q[i].start, q[i].end,
                      IF q[i].wrong
                      THEN Append(PySlice(DocumentText(ts), q[i].start, q[i].end), "a")
                      ELSE PySlice(DocumentText(ts), q[i].start, q[i].end),
                      TargetType, <<"1">>, FALSE)]

InitOffsets ==
    /\ \E ts \in PlainLayouts, n \in 0..MaxAnn :
            \E q \in [1..n -> {m \in [start : 0..MaxLen, end : 1..MaxLen,
                                       wrong : BOOLEAN] :
                                    [start |-> m.start, end |-> m.end,
                                     foreign |-> FALSE] \in Mentions(ts)}] :
                q_in = from_text_and_annotations("d1", ts, AnnotationsWithText(ts, q))
    /\ q_out = NoExample
    /\ pc = "ready"
    /\ example = NoExample
    /\ IdleCall /\ IdleGroup /\ IdleMerge /\ IdleDedup /\ IdlePrepare /\ IdleHash
    /\ IdleCluster

TestOffsets ==
    /\ pc = "ready"
    /\ pc' = "done"
    /\ q_out' = test_offsets_outcome(q_in)
    /\ UNCHANGED <<example, given, allow_drop, op, segm, result, g_in, g_out,
                   m_sents, m_anns, m_out, m_rounds, d_in, d_prev, d_calls,
                   p_in, p_out, p_op, h_in, h_out, h_op, q_in,
                   c_in, c_out, c_op,
                   m_merges>>

NextOffsets == TestOffsets

SpecOffsets == InitOffsets /\ [][NextOffsets]_vars

-----------------------------------------------------------------------------
(* the methods that work on one cluster of nested or overlapping annotations,
   called as clean_passage_intra_word_mentions and add_markers_to_passage call
   them: on a passage of a prepared example and one of its clusters *)

\* the longest text in front of a cluster that is tried
MaxOffset == 2

\* the annotations of the cluster g of the passage p, in the cluster's order
ClusterMembers(p, g) == [m \in 1..Len(g) |-> p.annotations[g[m]]]

InitCluster ==
    /\ \E ex \in PreparedExamples : \E k \in 1..Len(ex.passages) :
            /\ ex.passages[k].annotations # << >>
            /\ \E n \in 1..Len(ex.passages[k].annotations) :
                    /\ n <= Len(group_annotations_by_span(ex.passages[k].annotations))
                    /\ Len(group_annotations_by_span(ex.passages[k].annotations)[n]) > 1
                    /\ c_in = [passage |-> ex.passages[k],
                               g |-> group_annotations_by_span(ex.passages[k].annotations)[n]]
    /\ c_out = << >>
    /\ c_op = "none"
    /\ pc = "ready"
    /\ example = NoExample
    /\ IdleCall /\ IdleGroup /\ IdleMerge /\ IdleDedup /\ IdlePrepare /\ IdleHash
    /\ IdleChecks

\* the method `name` is called on the cluster and answers out
ClusterStep(name, out) ==
    /\ pc = "ready"
    /\ pc' = "done"
    /\ c_op' = name
    /\ c_out' = out
    /\ UNCHANGED <<example, given, allow_drop, op, segm, result, g_in, g_out,
                   m_sents, m_anns, m_out, m_rounds, d_in, d_prev, d_calls,
                   p_in, p_out, p_op, h_in, h_out, h_op, q_in, q_out, c_in,
                   m_merges>>

\* CleanIntraWordMentions.get_grouped_annotations_inserts, on the characters
\* get_text_span_multi_annotation gives
CleanInserts ==
    ClusterStep("CleanIntraWordMentions.get_grouped_annotations_inserts",
        With(get_text_span_multi_annotation(c_in.passage, c_in.passage.annotations, c_in.g),
             LAMBDA chars :
            [chars |-> chars] @@
            CleanIntraWordMentions_get_grouped_annotations_inserts(
                c_in.passage.annotations, c_in.g, chars,
                SpanStart(c_in.passage, c_in.passage.annotations, c_in.g),
                c_in.passage.offset)))

\* AddMentionMarkers.add_markers_to_grouped_annotations (its calls of
\* get_text_span_multi_annotation, get_grouped_annotations_inserts and
\* apply_inserts included)
MarkCluster ==
    ClusterStep("AddMentionMarkers.add_markers_to_grouped_annotations",
        add_markers_to_grouped_annotations(c_in.passage.annotations, c_in.g,
                                           c_in.passage))

\* BaseTransformation.remap_offsets_grouped_annotations, called as
\* clean_passage_intra_word_mentions (via = "clean") and
\* add_markers_to_passage (via = "mark") call it: with the rebuilt texts and
\* the span text cl of the cluster, and the length of the text built so far
RemapOutcome(via, offset, cl) ==
    [via |-> via, span_text |-> cl.span_text, offset |-> offset,
     before |-> cl.anns] @@
    remap_offsets_grouped_annotations(cl.anns, c_in.g, cl.span_text, offset)

Remap ==
    \E via \in {"clean", "mark"}, offset \in 0..MaxOffset :
        ClusterStep("remap_offsets_grouped_annotations",
            RemapOutcome(via, offset,
                IF via = "clean"
                THEN clean_grouped_annotations_intraword_mention(
                        c_in.passage.annotations, c_in.g, c_in.passage)
                ELSE add_markers_to_grouped_annotations(
                        c_in.passage.annotations, c_in.g, c_in.passage)))

\* CleanIntraWordMentions.clean_grouped_annotations_intraword_mention, with
\* the characters its call of get_text_span_multi_annotation gives
CleanCluster ==
    ClusterStep("CleanIntraWordMentions.clean_grouped_annotations_intraword_mention",
        [chars |-> get_text_span_multi_annotation(
                        c_in.passage, c_in.passage.annotations, c_in.g)] @@
        clean_grouped_annotations_intraword_mention(
            c_in.passage.annotations, c_in.g, c_in.passage))

NextCluster ==
    \/ CleanInserts
    \/ CleanCluster
    \/ MarkCluster
    \/ Remap

SpecCluster == InitCluster /\ [][NextCluster]_vars

-----------------------------------------------------------------------------
(* SplitIntoSentences.merge_sentences_with_crossing_annotations round by
   round: m_out is the argument sentences_offsets of the current call, m_rounds
   the depth of the recursion *)

\* more rounds than any list of MaxSents sentences can need
MaxRounds == 4

InitMergeRounds ==
    /\ m_sents \in SentenceLists
    /\ m_anns \in MergeMentions
    /\ m_out = m_sents
    /\ m_rounds = 0
    /\ m_merges = << >>
    /\ pc = "ready"
    /\ example = NoExample
    /\ IdleCall /\ IdleGroup /\ IdleDedup /\ IdlePrepare /\ IdleHash /\ IdleChecks /\ IdleCluster

\* merges = self.find_sentences_to_be_merged(...)
FindMerges ==
    /\ pc = "ready"
    /\ pc' = "found"
    /\ m_merges' = find_sentences_to_be_merged(m_out, m_anns, 0)
    /\ UNCHANGED <<example, given, allow_drop, op, segm, result, g_in, g_out,
                   m_sents, m_anns, d_in, d_prev, d_calls,
                   p_in, p_out, p_op, h_in, h_out, h_op,
                   q_in, q_out,
                   c_in, c_out, c_op,
                   m_out, m_rounds>>

\* merges were found: the call applies them and calls itself
MergeRound ==
    /\ pc = "found"
    /\ Len(m_merges) # 0
    /\ m_rounds < MaxRounds
    /\ pc' = "ready"
    /\ m_out' = apply_merges_to_sentences_offsets(m_out, m_merges)
    /\ m_rounds' = m_rounds + 1
    /\ UNCHANGED <<example, given, allow_drop, op, segm, result, g_in, g_out,
                   m_sents, m_anns, d_in, d_prev, d_calls,
                   p_in, p_out, p_op, h_in, h_out, h_op,
                   q_in, q_out,
                   c_in, c_out, c_op,
                   m_merges>>

\* no merge was found: the call returns sentences_offsets
MergeReturn ==
    /\ pc = "found"
    /\ Len(m_merges) = 0
    /\ pc' = "done"
    /\ UNCHANGED <<example, given, allow_drop, op, segm, result, g_in, g_out,
                   m_sents, m_anns, d_in, d_prev, d_calls,
                   p_in, p_out, p_op, h_in, h_out, h_op,
                   q_in, q_out,
                   c_in, c_out, c_op,
                   m_out, m_rounds, m_merges>>

NextMergeRounds ==
    \/ FindMerges
    \/ MergeRound
    \/ MergeReturn

\* the interpreter goes on with the call until it returns
SpecMergeRounds ==
    InitMergeRounds /\ [][NextMergeRounds]_vars /\ WF_vars(NextMergeRounds)

-----------------------------------------------------------------------------
(* corpus.py: the chain of safe_apply calls of get_parsed_example (iwm, then
   sentences, then markers) on a prepared example; `example` is the example
   handed from one transformation to the next *)

InitPipeline ==
    /\ example \in PreparedExamples
    /\ given = example
    /\ allow_drop \in BOOLEAN
    /\ pc = "iwm"
    /\ op = "none"
    /\ segm = << >>
    /\ result = NoResult
    /\ IdleGroup /\ IdleMerge /\ IdleDedup /\ IdlePrepare /\ IdleHash /\ IdleChecks /\ IdleCluster

\* the transformation at `at` is called on the example and ends with outcome
\* r; the example it returns goes to the transformation `next`
PipelineStep(at, next, name, r, seg) ==
    /\ pc = at
    /\ pc' = IF r.kind = "returned" THEN next ELSE "raised"
    /\ op' = name
    /\ segm' = seg
    /\ result' = r
    /\ example' = IF r.kind = "returned" THEN r.ret ELSE example
    /\ UNCHANGED <<given, allow_drop, g_in, g_out, m_sents, m_anns, m_out,
                   m_rounds, d_in, d_prev, d_calls,
                   p_in, p_out, p_op, h_in, h_out, h_op,
                   q_in, q_out,
                   c_in, c_out, c_op,
                   m_merges>>

PipelineClean ==
    PipelineStep("iwm", "sentences", "CleanIntraWordMentions.safe_apply",
                 CleanIntraWordMentions_safe_apply(allow_drop, example), << >>)

PipelineSegment ==
    \E seg \in Detections(example) :
        PipelineStep("sentences", "markers", "SplitIntoSentences.safe_apply",
                     SplitIntoSentences_safe_apply(allow_drop, example, seg), seg)

PipelineMark ==
    PipelineStep("markers", "done", "AddMentionMarkers.safe_apply",
                 AddMentionMarkers_safe_apply(allow_drop, example), << >>)

NextPipeline ==
    \/ PipelineClean
    \/ PipelineSegment
    \/ PipelineMark

SpecPipeline == InitPipeline /\ [][NextPipeline]_vars

-----------------------------------------------------------------------------
(* Properties *)

SafeApplyOps ==
    {"CleanIntraWordMentions.safe_apply", "AddMentionMarkers.safe_apply",
     "SplitIntoSentences.safe_apply"}

CleanOps == {"CleanIntraWordMentions.apply", "CleanIntraWordMentions.safe_apply"}

SegmentOps == {"SplitIntoSentences.apply", "SplitIntoSentences.safe_apply"}

\* p.text[a.start - p.offset : a.end - p.offset] == a.text for every
\* annotation a of every passage p
OffsetConsistent(ex) ==
    \A k \in 1..Len(ex.passages) :
        LET p == ex.passages[k]
        IN  \A i \in 1..Len(p.annotations) :
                PySlice(p.text, p.annotations[i].start - p.offset,
                        p.annotations[i].end - p.offset) = p.annotations[i].text

HasTargetAnnotation(ex) ==
    \E k \in 1..Len(ex.passages) :
        \E i \in 1..Len(ex.passages[k].annotations) :
            ~ex.passages[k].annotations[i].foreign

\* C1: when safe_apply of CleanIntraWordMentions, SplitIntoSentences or
\* AddMentionMarkers is called on a prepared, offset-consistent example and
\* returns an example with at least one non-foreign annotation, every
\* annotation of the returned example has the text of its passage at its
\* offsets.
C1_SafeApplyKeepsOffsetsConsistent ==
    (/\ pc = "done"
     /\ op \in SafeApplyOps
     /\ given.prepared
     /\ OffsetConsistent(given)
     /\ result.kind = "returned"
     /\ HasTargetAnnotation(result.ret))
    => OffsetConsistent(result.ret)

\* a safe_apply that rewrote the example and returned annotations in a
\* passage that is not the first
C1_Witness ==
    /\ pc = "done"
    /\ op \in SafeApplyOps
    /\ result.kind = "returned"
    /\ HasTargetAnnotation(result.ret)
    /\ result.ret.passages # given.passages
    /\ \E k \in 1..Len(result.ret.passages) :
            /\ result.ret.passages[k].offset > 0
            /\ result.ret.passages[k].annotations # << >>

\* C2: when safe_apply meets one of the errors of the transformation (apply
\* raised, offsets inconsistent after the rewrite, intra-word mentions left),
\* it returns an example with the same id and no passages if allow_drop, and
\* raises RuntimeError otherwise.
C2_DropPolicy ==
    (pc = "done" /\ op \in SafeApplyOps /\ result.hit # "none")
    => IF allow_drop
       THEN /\ result.kind = "returned"
            /\ result.ret.id = given.id
            /\ result.ret.passages = << >>
       ELSE result.kind = "RuntimeError"

\* apply failed inside safe_apply and the example was dropped
C2_Witness ==
    /\ pc = "done"
    /\ op \in SafeApplyOps
    /\ result.hit = "apply"
    /\ allow_drop
    /\ result.kind = "returned"
    /\ result.ret.passages = << >>
    /\ given.passages # << >>

\* C3: when apply fails inside safe_apply, the caller either gets an empty
\* example (allow_drop) or its example is left as it was (raise).
C3_Atomic ==
    (pc = "done" /\ op \in SafeApplyOps /\ result.hit = "apply")
    => IF allow_drop
       THEN result.kind = "returned" /\ result.ret.passages = << >>
       ELSE example = given

\* C5: for every passage that clean_passage_intra_word_mentions worked on,
\* the white_spaces_added counter of every cluster is the number of spaces
\* inserted for it, and the new text is as long as the old one plus the
\* counter.
C5_CounterIsSpacesInserted ==
    (pc = "done" /\ op \in CleanOps)
    => \A e \in 1..Len(result.log) :
            /\ \A c \in 1..Len(result.log[e].clusters) :
                    result.log[e].clusters[c].counted = result.log[e].clusters[c].inserted
            /\ ~result.log[e].remap_failed
                    => result.log[e].new = result.log[e].old
                                            + result.log[e].white_spaces_added

\* C6: after CleanIntraWordMentions.apply has returned for a prepared,
\* offset-consistent example, no annotation is an intra-word mention.
C6_NoIntraWordResidue ==
    (/\ pc = "done"
     /\ op = "CleanIntraWordMentions.apply"
     /\ given.prepared
     /\ OffsetConsistent(given)
     /\ result.kind = "returned")
    => ~test_intraword_mentions(result.ret)

\* the ids of the annotations of the passages of ex that have passage id pid,
\* in order
AnnotationIdsOf(ex, pid) ==
    Flatten([k \in 1..Len(ex.passages) |->
                IF ex.passages[k].id = pid
                THEN [i \in 1..Len(ex.passages[k].annotations) |->
                        ex.passages[k].annotations[i].id]
                ELSE << >>])

IsPermutation(s, t) ==
    /\ Len(s) = Len(t)
    /\ \A x \in {s[i] : i \in 1..Len(s)} \cup {t[i] : i \in 1..Len(t)} :
            Cardinality({i \in 1..Len(s) : s[i] = x})
                = Cardinality({i \in 1..Len(t) : t[i] = x})

\* C7: when SplitIntoSentences.apply has completed, the annotation lists of
\* the sentences of a passage, concatenated, are a permutation of the
\* annotation list the passage had.
C7_SegmentationComplete ==
    (/\ pc = "done"
     /\ op \in SegmentOps
     /\ result.kind = "returned"
     /\ result.hit = "none")
    => \A k \in 1..Len(given.passages) :
            IsPermutation(AnnotationIdsOf(result.ret, given.passages[k].id),
                          AnnotationIdsOf(given, given.passages[k].id))

\* a passage split into two sentences that both have annotations
C7_Witness ==
    /\ pc = "done"
    /\ op = "SplitIntoSentences.apply"
    /\ result.kind = "returned"
    /\ \E j, k \in 1..Len(result.ret.passages) :
            /\ j < k
            /\ result.ret.passages[j].id = result.ret.passages[k].id
            /\ result.ret.passages[j].annotations # << >>
            /\ result.ret.passages[k].annotations # << >>

\* the sum over the passages before the k-th of len(text) + 1
ExpectedOffset(passages, k) ==
    IF k = 1 THEN 0
    ELSE LET F[j \in 1..(k - 1)] ==
                (IF j = 1 THEN 0 ELSE F[j - 1]) + Len(passages[j].text) + 1
         IN  F[k - 1]

RelatedSpans(a, b) == nested(a, b) \/ overlaps(a, b) \/ nested(b, a) \/ overlaps(b, a)

\* the positions of g_in that a chain of related annotations links to those of S
RECURSIVE Linked(_)
Linked(S) ==
    LET T == S \cup {j \in 1..Len(g_in) : \E i \in S : RelatedSpans(g_in[i], g_in[j])}
    IN  IF T = S THEN S ELSE Linked(T)

\* the groups of g_out that hold position i of g_in
GroupsOf(i) ==
    {k \in 1..Len(g_out) : \E m \in 1..Len(g_out[k]) : g_out[k][m] = i}

\* C4: the groups of group_annotations_by_span are a partition of the input;
\* two annotations are in the same group iff a chain of pairwise
\* overlap/nesting relations connects them; annotations of different groups
\* neither overlap nor nest.
C4_GroupingIsChainPartition ==
    pc = "done"
    => /\ Len(Flatten(g_out)) = Len(g_in)
       /\ \A k \in 1..Len(g_out) : Len(g_out[k]) > 0
       /\ \A i \in 1..Len(g_in) : Cardinality(GroupsOf(i)) = 1
       /\ \A i, j \in 1..Len(g_in) :
            /\ (GroupsOf(i) = GroupsOf(j)) <=> (j \in Linked({i}))
            /\ (GroupsOf(i) # GroupsOf(j)) => ~RelatedSpans(g_in[i], g_in[j])

\* a group held together by a chain only: two of its members are not related
\* to each other; and another group beside it
C4_Witness ==
    /\ pc = "done"
    /\ \E k \in 1..Len(g_out) :
        \E m, n \in 1..Len(g_out[k]) : ~RelatedSpans(g_in[g_out[k][m]], g_in[g_out[k][n]])

\* C8: after merge_sentences_with_crossing_annotations, an annotation whose
\* first and last character each lie in some candidate sentence lies in
\* exactly one sentence, however many candidate sentences it extends over.
C8_MergedSentenceHoldsAnnotation ==
    pc = "done"
    => \A i \in 1..Len(m_anns) :
        LET a == m_anns[i]
            InCandidate(x) ==
                \E k \in 1..Len(m_sents) : m_sents[k][1] <= x /\ x < m_sents[k][2]
        IN  (InCandidate(a.start) /\ InCandidate(a.end - 1))
            => Cardinality({k \in 1..Len(m_out) :
                    m_out[k][1] <= a.start /\ a.end <= m_out[k][2]}) = 1

SameAnnotationLists(e1, e2) ==
    /\ Len(e1.passages) = Len(e2.passages)
    /\ \A k \in 1..Len(e1.passages) :
            e1.passages[k].annotations = e2.passages[k].annotations

\* C10: a second call of drop_duplicate_annotations leaves the annotation list
\* of every passage as the first call left it.
C10_DedupIdempotent ==
    d_calls >= 2 => SameAnnotationLists(example, d_prev)

\* two calls, the first of which dropped a duplicate and reordered a list
C10_Witness ==
    /\ d_calls = 2
    /\ \E k \in 1..Len(d_in.passages) :
            /\ Len(example.passages[k].annotations) < Len(d_in.passages[k].annotations)
            /\ Len(example.passages[k].annotations) > 1
            /\ example.passages[k].annotations[1] # d_in.passages[k].annotations[1]

\* the fields that make two annotations duplicates of each other
DuplicateKey(a) == <<a.start, a.end, a.text, a.entity_type, a.identifiers>>

\* of every class of duplicates the first annotation, in the order of the list
FirstOccurrences(anns) ==
    LET keep == SelectIdx(anns, LAMBDA i :
                    \A j \in 1..(i - 1) : DuplicateKey(anns[j]) # DuplicateKey(anns[i]))
    IN  [k \in 1..Len(keep) |-> anns[keep[k]]]

\* C11: drop_duplicate_annotations leaves in every passage one annotation per
\* class of annotations with the same (start, end, text, entity_type,
\* identifiers), the first of each class, in the order in which these first
\* occurrences were inserted.
C11_DedupKeepsInsertionOrder ==
    (p_op = "drop_duplicate_annotations" /\ p_out.kind = "returned") =>
        \A k \in 1..Len(p_out.example.passages) :
            p_out.example.passages[k].annotations
                = FirstOccurrences(BuildExample(p_in).passages[k].annotations)

\* the fields that annotations merged by group_annotations_by_span share
SpanKey(a) == <<a.start, a.end, a.text, a.entity_type>>

IdentifiersOf(a) == {a.identifiers[i] : i \in 1..Len(a.identifiers)}

\* C12: after Example.group_annotations_by_span a passage holds one annotation
\* per (start, end, text, entity_type), and its identifiers are the union of
\* the identifiers of the annotations of the passage that shared these fields.
C12_GroupedMergeCarriesUnion ==
    (p_op = "group_annotations_by_span" /\ p_out.kind = "returned") =>
        \A k \in 1..Len(p_out.example.passages) :
            LET inp == BuildExample(p_in).passages[k].annotations
                out == p_out.example.passages[k].annotations
            IN  /\ \A i, j \in 1..Len(out) :
                        SpanKey(out[i]) = SpanKey(out[j]) => i = j
                /\ \A i \in 1..Len(out) :
                        IdentifiersOf(out[i]) =
                            UNION {IdentifiersOf(inp[j]) :
                                    j \in {m \in 1..Len(inp) :
                                            SpanKey(inp[m]) = SpanKey(out[i])}}

\* C13: after prepare the ids are 0..n-1, each once, and follow the passages,
\* inside a passage the start, and for the same start the longer annotation
\* comes first.
C13_IdsDenseInSpanOrder ==
    (p_op = "prepare" /\ p_out.kind = "returned") =>
        LET ex == p_out.example
            n  == SumLen([k \in 1..Len(ex.passages) |-> ex.passages[k].annotations])
            Before(k, i, m, j) ==
                LET a == ex.passages[k].annotations[i]
                    b == ex.passages[m].annotations[j]
                IN  \/ k < m
                    \/ k = m /\ a.start < b.start
                    \/ k = m /\ a.start = b.start /\ a.end > b.end
        IN  /\ \A id \in 0..(n - 1) :
                    Cardinality({x \in UNION {{<<k, i>> :
                                        i \in 1..Len(ex.passages[k].annotations)} :
                                    k \in 1..Len(ex.passages)} :
                                 ex.passages[x[1]].annotations[x[2]].id = id}) = 1
            /\ \A k, m \in 1..Len(ex.passages) :
                    \A i \in 1..Len(ex.passages[k].annotations),
                       j \in 1..Len(ex.passages[m].annotations) :
                        Before(k, i, m, j) =>
                            ex.passages[k].annotations[i].id
                                < ex.passages[m].annotations[j].id

\* C14: after prepare every annotation that is not foreign has at least one
\* identifier.
C14_TargetAnnotationsHaveIdentifiers ==
    (p_op = "prepare" /\ p_out.kind = "returned") =>
        \A k \in 1..Len(p_out.example.passages) :
            \A i \in 1..Len(p_out.example.passages[k].annotations) :
                With(p_out.example.passages[k].annotations[i], LAMBDA a :
                    ~a.foreign => a.identifiers # None /\ Len(a.identifiers) > 0)

MarkOps == {"AddMentionMarkers.apply", "AddMentionMarkers.safe_apply"}

\* the members of the cluster g of the passage p that start where g starts
AtClusterStart(p, g) ==
    SelectIdx(g, LAMBDA m :
        p.annotations[g[m]].start - p.offset = SpanStart(p, p.annotations, g))

\* the annotation with the id of a in the passage q
SameId(q, a) ==
    q.annotations[CHOOSE i \in 1..Len(q.annotations) : q.annotations[i].id = a.id]

\* C15: when at least two annotations of a cluster start at the cluster's
\* first position, AddMentionMarkers puts one start marker per such
\* annotation in front of the cluster, every marker of the passage is in the
\* new text (none replaces another), and every annotation of the cluster has
\* the text it had.
C15_NestedMarkersKeepText ==
    (pc = "done" /\ op \in MarkOps /\ result.kind = "returned"
        /\ result.ret.passages # << >>)
    => \A k \in 1..Len(given.passages) :
        LET p == given.passages[k]
            q == result.ret.passages[k]
            groups == IF p.annotations = << >> THEN << >>
                      ELSE group_annotations_by_span(p.annotations)
        IN  \A c \in 1..Len(groups) :
                LET g    == groups[c]
                    head == AtClusterStart(p, g)
                    first == SpanStart(p, p.annotations, g)
                IN  Len(head) >= 2 =>
                        /\ \E x \in 0..(Len(q.text) - 5 * Len(head) - 1) :
                              /\ PySlice(q.text, x, x + 5 * Len(head)) =
                                    Flatten([m \in 1..Len(head) |->
                                        get_markers(p.annotations[g[head[m]]].entity_type).start])
                              /\ CharAt(q.text, x + 5 * Len(head)) = CharAt(p.text, first)
                        /\ Len(q.text) = Len(p.text) + 10 * Len(p.annotations)
                        /\ \A m \in 1..Len(g) :
                                SameId(q, p.annotations[g[m]]).text
                                    = p.annotations[g[m]].text

\* the character of the passage p before / after the annotation a is
\* alphanumeric
AlnumBefore(a, p) ==
    a.start - p.offset > 0 /\ IsAlnum(CharAt(p.text, a.start - p.offset - 1))

AlnumAfter(a, p) ==
    a.end - p.offset < Len(p.text) /\ IsAlnum(CharAt(p.text, a.end - p.offset))

\* the spaces an independent annotation asks for
SpacesFor(a, p) ==
    (IF AlnumBefore(a, p) THEN 1 ELSE 0) + (IF AlnumAfter(a, p) THEN 1 ELSE 0)

\* the groups of the passage p, none when it has no annotation
GroupsOfPassage(p) ==
    IF p.annotations = << >> THEN << >> ELSE group_annotations_by_span(p.annotations)

HexdigestSet(out) == {out[i] : i \in 1..Len(out)}

\* C17: the same annotations given in two orders are prepared to annotations
\* with the same identity: the same set of hashes with original=True, the
\* same digest with original=False.
C17_HexdigestOrderIndependent ==
    h_op # "none" =>
        \A k \in 1..Len(h_out[1]) :
            \A i \in 1..Len(h_out[1][k]), j \in 1..Len(h_out[2][k]) :
                With(h_out[1][k][i], LAMBDA x : With(h_out[2][k][j], LAMBDA y :
                    (/\ x.start = y.start /\ x.end = y.end
                     /\ x.entity_type = y.entity_type
                     /\ x.constituents > 1
                     /\ x.hexdigest.kind = "returned"
                     /\ y.hexdigest.kind = "returned")
                    => IF h_op = "to_hexdigest(original=True)"
                       THEN HexdigestSet(x.hexdigest.out) = HexdigestSet(y.hexdigest.out)
                       ELSE x.hexdigest.out = y.hexdigest.out))

\* the annotations of ex whose text is not the passage text at their offsets,
\* as <<passage, position>>
Mismatching(ex) ==
    UNION {{<<k, i>> : i \in {j \in 1..Len(ex.passages[k].annotations) :
                ex.passages[k].annotations[j].text #
                    PySlice(ex.passages[k].text,
                            ex.passages[k].annotations[j].start - ex.passages[k].offset,
                            ex.passages[k].annotations[j].end - ex.passages[k].offset)}} :
           k \in 1..Len(ex.passages)}

\* C18: test_offsets raises OffsetError iff some annotation mismatches, and
\* the error then has one entry per mismatching annotation of every passage.
C18_OffsetErrorsAreComplete ==
    pc = "done" /\ q_in # NoExample =>
        /\ q_out.kind = "OffsetError" <=> Mismatching(q_in) # {}
        /\ Len(q_out.errors) = Cardinality(Mismatching(q_in))
        /\ \A x \in Mismatching(q_in) :
                With(q_in.passages[x[1]].annotations[x[2]], LAMBDA a :
                    Cardinality({e \in 1..Len(q_out.errors) :
                        /\ q_out.errors[e].start = a.start
                        /\ q_out.errors[e].end = a.end
                        /\ q_out.errors[e].text = a.text})
                    = Cardinality({y \in Mismatching(q_in) :
                        With(q_in.passages[y[1]].annotations[y[2]], LAMBDA b :
                            b.start = a.start /\ b.end = a.end /\ b.text = a.text)}))

\* an error raised for mismatches in two passages, next to an annotation
\* that is right
C18_Witness ==
    /\ pc = "done" /\ q_in # NoExample
    /\ q_out.kind = "OffsetError"
    /\ Len(q_out.errors) = 2
    /\ \E x, y \in Mismatching(q_in) : x[1] # y[1]
    /\ \E k \in 1..Len(q_in.passages) :
            \E i \in 1..Len(q_in.passages[k].annotations) : <<k, i>> \notin Mismatching(q_in)

\* C19: an example that safe_apply of any transformation transformed and
\* returned (not dropped) went through the offset check and the intra-word
\* check as returned: neither check raises on it.
C19_SafeApplyRunsBothChecks ==
    (/\ pc = "done" /\ op \in SafeApplyOps
     /\ result.kind = "returned" /\ result.hit = "none")
        => /\ ~test_offsets(result.ret)
           /\ ~test_intraword_mentions(result.ret)

\* C20: when the length post-condition of whitespace insertion fails in a
\* passage (the new text is not as long as the old text plus the white spaces
\* added), the call ends with an error whatever allow_drop is: it never
\* returns an example, empty or not.
C20_LengthViolationIsFatal ==
    (/\ pc = "done" /\ op \in CleanOps
     /\ \E i \in 1..Len(result.log) : result.log[i].length_failed)
        => result.kind = "RuntimeError"

\* the span text of the cluster of c_in, and a member's start and end in it
ClusterSpanText ==
    PySlice(c_in.passage.text,
            SpanStart(c_in.passage, c_in.passage.annotations, c_in.g),
            SpanEnd(c_in.passage, c_in.passage.annotations, c_in.g))

RelativeStart(a) ==
    a.start - c_in.passage.offset
        - SpanStart(c_in.passage, c_in.passage.annotations, c_in.g)

RelativeEnd(a) == RelativeStart(a) + Len(a.text)

\* C21: get_grouped_annotations_inserts asks for a space before a member's
\* relative start iff the character before that start is alphanumeric, and
\* for a space after a member's relative end iff the character after that
\* end is alphanumeric, and for no other space. (inserts[i] is the space
\* that goes after the character at index i.)
C21_ClusterInsertionPoints ==
    (pc = "done" /\ c_op = "CleanIntraWordMentions.get_grouped_annotations_inserts")
        => \A i \in 0..(Len(ClusterSpanText) - 1) :
              i \in DOMAIN c_out.inserts
              <=> \E m \in 1..Len(c_in.g) :
                    With(ClusterMembers(c_in.passage, c_in.g)[m], LAMBDA a :
                        \/ /\ RelativeStart(a) = i + 1
                           /\ IsAlnum(CharAt(ClusterSpanText, i))
                        \/ /\ RelativeEnd(a) = i + 1
                           /\ i + 1 < Len(ClusterSpanText)
                           /\ IsAlnum(CharAt(ClusterSpanText, i + 1)))

\* the members of the cluster of c_in that start at the relative position s
StartingAt(s) ==
    {m \in 1..Len(c_in.g) :
        RelativeStart(ClusterMembers(c_in.passage, c_in.g)[m]) = s}

\* where the character s of the span text is after the markers went in, when
\* no marker is lost: every member that starts at or before s has put a start
\* marker in front of it, every member that ends at or before s an end marker
MarkedPosition(s) ==
    s + Len(MS) * Cardinality({m \in 1..Len(c_in.g) :
                RelativeStart(ClusterMembers(c_in.passage, c_in.g)[m]) <= s})
      + Len(ME) * Cardinality({m \in 1..Len(c_in.g) :
                RelativeEnd(ClusterMembers(c_in.passage, c_in.g)[m]) <= s})

\* the orders of the members of S, longest first (members of the same
\* length in either order)
NestingOrders(S) ==
    {f \in [1..Cardinality(S) -> S] :
        /\ \A i, j \in 1..Cardinality(S) : i # j => f[i] # f[j]
        /\ \A i, j \in 1..Cardinality(S) :
              i < j => Len(ClusterMembers(c_in.passage, c_in.g)[f[i]].text)
                        >= Len(ClusterMembers(c_in.passage, c_in.g)[f[j]].text)}

\* C22: when several annotations of a cluster start at the same position,
\* the marked span text has the start markers of all of them right in front
\* of that position, the outermost annotation's marker first (furthest from
\* the text) and the innermost last.
C22_StartMarkersInNestingOrder ==
    (pc = "done" /\ c_op = "AddMentionMarkers.add_markers_to_grouped_annotations")
        => \A s \in 0..(Len(ClusterSpanText) - 1) :
              Cardinality(StartingAt(s)) > 1 =>
                \E f \in NestingOrders(StartingAt(s)) :
                    PySlice(c_out.span_text,
                            MarkedPosition(s) - Len(MS) * Cardinality(StartingAt(s)),
                            MarkedPosition(s) + 1)
                    = Flatten([i \in 1..Cardinality(StartingAt(s)) |->
                                get_markers(ClusterMembers(c_in.passage, c_in.g)[f[i]]
                                                .entity_type).start])
                      \o <<CharAt(ClusterSpanText, s)>>

\* a gene annotation and a shorter foreign annotation that start together:
\* the marked text starts with [MS] [FS]
C22_Witness ==
    /\ pc = "done" /\ c_op = "AddMentionMarkers.add_markers_to_grouped_annotations"
    /\ \E m, n \in StartingAt(0) :
            /\ Len(ClusterMembers(c_in.passage, c_in.g)[m].text)
                 > Len(ClusterMembers(c_in.passage, c_in.g)[n].text)
            /\ ~ClusterMembers(c_in.passage, c_in.g)[m].foreign
            /\ ClusterMembers(c_in.passage, c_in.g)[n].foreign
    /\ PySlice(c_out.span_text, 0, 2 * Len(MS)) = MS \o FS

\* the text t is in the text h at index i
OccursAt(t, h, i) ==
    /\ i >= 0 /\ i + Len(t) <= Len(h)
    /\ \A k \in 1..Len(t) : h[i + k] = t[k]

\* C23: remap_offsets_grouped_annotations raises RuntimeError iff the text of
\* some annotation of the cluster does not occur in the span text; otherwise
\* every annotation of the cluster gets start = index of the first occurrence
\* of its text in the span text (compared character by character) + offset,
\* and end = start + len(text).
C23_RemapBySubstringSearch ==
    (pc = "done" /\ c_op = "remap_offsets_grouped_annotations")
        => /\ c_out.err <=>
                \E m \in 1..Len(c_in.g) :
                    \A i \in 0..Len(c_out.span_text) :
                        ~OccursAt(c_out.before[c_in.g[m]].text, c_out.span_text, i)
           /\ ~c_out.err =>
                \A m \in 1..Len(c_in.g) :
                    With(c_out.anns[c_in.g[m]], LAMBDA a :
                        /\ a.text = c_out.before[c_in.g[m]].text
                        /\ OccursAt(a.text, c_out.span_text, a.start - c_out.offset)
                        /\ \A i \in 0..(a.start - c_out.offset - 1) :
                                ~OccursAt(a.text, c_out.span_text, i)
                        /\ a.end = a.start + Len(a.text))

\* a remapping with a base offset in which the text of an annotation occurs
\* twice in the span text
C23_Witness ==
    /\ pc = "done" /\ c_op = "remap_offsets_grouped_annotations"
    /\ ~c_out.err /\ c_out.offset > 0
    /\ \E m \in 1..Len(c_in.g) :
            \E i, j \in 0..Len(c_out.span_text) :
                /\ i < j
                /\ OccursAt(c_out.anns[c_in.g[m]].text, c_out.span_text, i)
                /\ OccursAt(c_out.anns[c_in.g[m]].text, c_out.span_text, j)

\* a remapping that raises
C23_WitnessRaise ==
    pc = "done" /\ c_op = "remap_offsets_grouped_annotations" /\ c_out.err

\* C24: get_text_span_multi_annotation gives one (character, ids) pair per
\* character of the span [min start, max end) of the cluster, ids being the
\* ids of the annotations of the cluster that cover the character; the
\* characters tagged with an annotation's id, in order, are its text; after
\* the spaces went in, the text rebuilt from the tags is one piece of the
\* rewritten span text.
C24_CharOwnershipMap ==
    (pc = "done"
     /\ c_op = "CleanIntraWordMentions.clean_grouped_annotations_intraword_mention")
        => /\ Len(c_out.chars) = Len(ClusterSpanText)
           /\ \A i \in 1..Len(c_out.chars) :
                /\ c_out.chars[i].c = ClusterSpanText[i]
                /\ c_out.chars[i].o =
                     {a.id : a \in {b \in {ClusterMembers(c_in.passage, c_in.g)[m] :
                                              m \in 1..Len(c_in.g)} :
                                    RelativeStart(b) <= i - 1
                                        /\ i - 1 < b.end - b.start + RelativeStart(b)}}
           /\ \A m \in 1..Len(c_in.g) :
                /\ TextOf(c_out.chars, c_in.passage.annotations[c_in.g[m]].id)
                        = c_in.passage.annotations[c_in.g[m]].text
                /\ \E i \in 0..Len(c_out.span_text) :
                        OccursAt(c_out.anns[c_in.g[m]].text, c_out.span_text, i)

\* a cluster of overlapping annotations that got a space inside
C24_Witness ==
    /\ pc = "done"
    /\ c_op = "CleanIntraWordMentions.clean_grouped_annotations_intraword_mention"
    /\ Len(c_out.span_text) > Len(c_out.chars)
    /\ \E i \in 1..Len(c_out.chars) : Cardinality(c_out.chars[i].o) = 1
    /\ \E i \in 1..Len(c_out.chars) : Cardinality(c_out.chars[i].o) > 1
    /\ \E m \in 1..Len(c_in.g) :
            Len(c_out.anns[c_in.g[m]].text) > Len(c_in.passage.annotations[c_in.g[m]].text)

\* C25: merge_sentences_with_crossing_annotations returns for every list of
\* candidate sentences and annotations; every round that finds a merge leaves
\* fewer sentence ranges than it got, so there are at most (number of
\* sentences - 1) such rounds; and the merge step applied to the ranges it
\* returns gives the same ranges.
C25_MergeTerminates ==
    /\ <>(pc = "done")
    /\ [][m_rounds' # m_rounds => Len(m_out') < Len(m_out)]_vars
    /\ [](m_rounds <= Len(m_sents) - 1)
    /\ [](pc = "done" =>
            /\ apply_merges_to_sentences_offsets(
                    m_out, find_sentences_to_be_merged(m_out, m_anns, 0)) = m_out
            /\ merge_sentences_with_crossing_annotations(m_out, m_anns, 0) = m_out)

\* a call that returned after two rounds of merging
C25_Witness == pc = "done" /\ m_rounds = 2 /\ Len(m_out) = 1

\* C26: an example that the safe_apply of one transformation returned is
\* accepted by the safe_apply of the next transformation of the chain (no
\* assertion fails on it), and an empty example is returned, still empty,
\* without an error.
C26_ChainAcceptsReturnedExample ==
    [][(pc \in {"sentences", "markers"}) =>
            (/\ result'.kind # "AssertionError"
             /\ (example.passages = << >>) =>
                    (result'.kind = "returned" /\ result'.ret.passages = << >>))
      ]_vars

\* the annotations of the example ex
AnnotationSet(ex) ==
    UNION {{ex.passages[k].annotations[i] : i \in 1..Len(ex.passages[k].annotations)} :
           k \in 1..Len(ex.passages)}

\* C27: when cleanup, marker insertion or sentence segmentation returns the
\* example, no annotation has moved onto another occurrence of its text: of
\* two annotations of a passage the one that started first still starts
\* first, and two annotations that had different spans still have different
\* spans.
C27_RemapKeepsOccurrence ==
    (pc = "done" /\ result.kind = "returned" /\ result.hit = "none")
        => \A k \in 1..Len(given.passages) :
            \A i, j \in 1..Len(given.passages[k].annotations) :
                \A a2, b2 \in AnnotationSet(result.ret) :
                    With(given.passages[k].annotations[i], LAMBDA a :
                    With(given.passages[k].annotations[j], LAMBDA b :
                        (a2.id = a.id /\ b2.id = b.id) =>
                            /\ a.start < b.start => a2.start < b2.start
                            /\ <<a.start, a.end>> # <<b.start, b.end>>
                                    => <<a2.start, a2.end>> # <<b2.start, b2.end>>))

\* the candidate sentences i and i + 1 are in one sentence of the output
MergedTogether(i) ==
    \E k \in 1..Len(m_out) :
        /\ m_out[k][1] <= m_sents[i][1]
        /\ m_sents[i + 1][2] <= m_out[k][2]

\* an annotation extends across the boundary between the candidate sentences
\* i and i + 1: it starts before the end of the first and ends after the
\* start of the second
BoundaryCrossed(i) ==
    \E n \in 1..Len(m_anns) :
        /\ m_anns[n].start < m_sents[i][2]
        /\ m_anns[n].end > m_sents[i + 1][1]

\* C28: two adjacent candidate sentences are in the same sentence after
\* merge_sentences_with_crossing_annotations only if an annotation extends
\* across the boundary between them.
C28_MergingIsMinimal ==
    (pc = "done" /\ m_sents # << >>)
        => \A i \in 1..(Len(m_sents) - 1) : MergedTogether(i) => BoundaryCrossed(i)

\* the members of the cluster of c_in that end at the relative position e
EndingAt(e) ==
    {m \in 1..Len(c_in.g) :
        RelativeEnd(ClusterMembers(c_in.passage, c_in.g)[m]) = e}

\* C29: when several nested annotations of a cluster end at the same
\* position, the marked span text has their end markers right after that
\* position, the innermost annotation's marker first (nearest the text) and
\* the outermost last, and the remapping of a cluster of two such annotations
\* does not raise, whatever the marker types of the two are.
C29_EndMarkersInNestingOrder ==
    (pc = "done" /\ c_op = "remap_offsets_grouped_annotations" /\ c_out.via = "mark")
        => \A e \in 1..Len(ClusterSpanText) :
              Cardinality(EndingAt(e)) > 1 =>
                /\ \E f \in NestingOrders(EndingAt(e)) :
                      PySlice(c_out.span_text,
                              MarkedPosition(e - 1) + 1,
                              MarkedPosition(e - 1) + 1
                                + Len(ME) * Cardinality(EndingAt(e)))
                      = Flatten([i \in 1..Cardinality(EndingAt(e)) |->
                            get_markers(ClusterMembers(c_in.passage, c_in.g)
                                [f[Cardinality(EndingAt(e)) + 1 - i]].entity_type).end])
                /\ Len(c_in.g) = 2 => ~c_out.err

\* the annotation a of the example has a hash that is in the given set
HasHexdigestIn(a) ==
    \E rank \in Ranks :
        \E j \in 1..Len(to_hexdigest(a, h_in.example.id, TRUE, rank).out) :
            to_hexdigest(a, h_in.example.id, TRUE, rank).out[j] \in h_in.hexdigests

\* C30: filter_annotations leaves in every passage exactly the annotations
\* that have at least one hash in the given set, each of them once and in
\* the order they had, also when an annotation merged from several has more
\* than one hash in the set.
C30_FilterKeepsEachOnce ==
    (pc = "done" /\ h_op = "filter_annotations" /\ h_out.kind = "returned")
        => \A k \in 1..Len(h_in.example.passages) :
              h_out.ret.passages[k].annotations
                = SelectSeq(h_in.example.passages[k].annotations, HasHexdigestIn)


============================================================================
